---- MODULE Spec2Model ----
(***************************************************************************)
(* A model of introspection.py: the schema crawler                         *)
(* (fetch_introspection_data and the depth-0 calls main makes) and the     *)
(* query synthesizer (build_query_body and its helpers), both working on   *)
(* the registry detailed_introspection_data and the known set              *)
(* introspected_types.                                                     *)
(*                                                                         *)
(* Strings.  A type reference string such as "[XEdge!]!" is the sequence   *)
(* of its lexemes <<"[", "XEdge", "!", "]", "!">>; a generated query is    *)
(* the sequence of its lexemes, "NL" standing for a line break.  Blank     *)
(* indentation is not represented: no comparison in the program reads it.  *)
(* Substring tests on names ('Connection' in t, keyword in name.lower())   *)
(* are tabulated over the finite universe of names of the model.           *)
(***************************************************************************)
EXTENDS Integers, Sequences, FiniteSets, TLC

VARIABLES
    schema,                       \* which remote schema the endpoint serves
    mainpc,                       \* position of main()
    introspected_types,           \* the known set (global, line 19)
    detailed_introspection_data,  \* the registry (global, line 44)
    stack,                        \* activation records of fetch_introspection_data
    requests,                     \* history: introspection requests sent per name
    fetchDepth,                   \* history: greatest depth a name was requested at
    request,                      \* the synthesis call made, if any
    result                        \* what that call returned

crawlVars == <<mainpc, introspected_types, detailed_introspection_data,
               stack, requests, fetchDepth>>
synthVars == <<request, result>>
vars == <<schema, mainpc, introspected_types, detailed_introspection_data,
          stack, requests, fetchDepth, request, result>>

(***************************************************************************)
(* Bounds of the model                                                     *)
(***************************************************************************)
\* the per-name request counter saturates here
ReqCap == 3

(***************************************************************************)
(* Names                                                                   *)
(***************************************************************************)
\* all type names of the model, in the order Python's sorted() gives them
NameOrder ==
    <<"A", "AConnection", "B", "BConnection", "Boolean", "CConnection", "DConnection",
      "Extra", "Film", "Float", "Genre", "Holder", "Hub", "HubSort", "ID", "Int", "Leaf",
      "Mode", "Name", "NameText", "P0", "P1", "P2", "P3", "P4", "PageInfo", "Part", "Query",
      "SearchFilter", "Stamp", "String", "Title", "TitleText", "Unknown", "X",
      "XConnection", "XEdge", "Y", "YConnection", "YEdge", "Z", "__Type">>

TypeNames == {NameOrder[i] : i \in 1..Len(NameOrder)}

\* sorted(S) for a set of type names
Sorted(S) == SelectSeq(NameOrder, LAMBDA n : n \in S)

SeqToSet(s) == {s[i] : i \in 1..Len(s)}

Take(s, k) == SubSeq(s, 1, IF Len(s) < k THEN Len(s) ELSE k)

\* t in ['String', 'Int', 'Float', 'Boolean', 'ID']
IsBuiltinScalar(n) == n \in {"String", "Int", "Float", "Boolean", "ID"}

\* t.startswith('__')
IsMetaName(n) == n \in {"__Type"}

\* a mutation of IsBuiltinName: no name is taken for a built-in one
IsBuiltinName_Never(n) == FALSE

\* type_name.startswith('__') or type_name in ['String','Int','Float','Boolean','ID']
IsBuiltinName(n) == IsMetaName(n) \/ IsBuiltinScalar(n)

\* any(kw in t for kw in ['Constraint','Search','Sort','Filter','Input'])
HasConstraintKeyword(n) == n \in {"HubSort", "SearchFilter"}

\* t in ['Name','Title','NameText','TitleText']
IsImportantName(n) == n \in {"Name", "Title", "NameText", "TitleText"}

\* 'Connection' in t
HasConnection(n) == n \in {"AConnection", "BConnection", "CConnection", "DConnection", "XConnection", "YConnection"}

\* 'Edge' in t
HasEdge(n) == n \in {"XEdge", "YEdge"}

(***************************************************************************)
(* The remote schema.  A type reference of the server is the chain of its  *)
(* introspection objects, outermost first: wrappers have kind NON_NULL or  *)
(* LIST and no name, the last element is the named type.                   *)
(***************************************************************************)
Named(k, n) == <<[kind |-> k, name |-> n]>>
NonNull(t) == <<[kind |-> "NON_NULL", name |-> ""]>> \o t
ListOf(t) == <<[kind |-> "LIST", name |-> ""]>> \o t
Obj(n) == Named("OBJECT", n)
Inp(n) == Named("INPUT_OBJECT", n)
Scalar(n) == Named("SCALAR", n)
Enum(n) == Named("ENUM", n)

Fld(n, t, a) == [name |-> n, type |-> t, args |-> a]
Arg(n, t) == [name |-> n, type |-> t]
TypeData(k, f, i) == [kind |-> k, fields |-> f, inputFields |-> i]

\* a chain of object types that leads to Query, which refers back to its head
DeepSchema ==
    [n \in {"Holder", "P0", "P1", "P2", "P3", "P4", "Leaf", "Query", "SearchFilter"} |->
        CASE n = "Holder" -> TypeData("OBJECT", <<Fld("p", Obj("P0"), <<>>)>>, <<>>)
          [] n = "P0" -> TypeData("OBJECT", <<Fld("next", Obj("P1"), <<>>)>>, <<>>)
          [] n = "P1" -> TypeData("OBJECT", <<Fld("next", NonNull(Obj("P2")), <<>>)>>, <<>>)
          [] n = "P2" -> TypeData("OBJECT", <<Fld("next", ListOf(Obj("P3")), <<>>)>>, <<>>)
          [] n = "P3" -> TypeData("OBJECT", <<Fld("next", Obj("P4"), <<>>)>>, <<>>)
          [] n = "P4" -> TypeData("OBJECT",
                            <<Fld("root", Obj("Query"), <<>>),
                              Fld("leaf", Obj("Leaf"), <<>>)>>, <<>>)
          [] n = "Leaf" -> TypeData("OBJECT", <<Fld("id", NonNull(Scalar("ID")), <<>>)>>, <<>>)
          [] n = "Query" -> TypeData("OBJECT",
                            <<Fld("search", Obj("P0"),
                                  <<Arg("filter", NonNull(Inp("SearchFilter")))>>)>>, <<>>)
          [] n = "SearchFilter" -> TypeData("INPUT_OBJECT", <<>>,
                            <<Fld("term", Scalar("String"), <<>>)>>)]

\* entity types that refer to each other, to themselves and to shared text types
CyclicSchema ==
    [n \in {"Query", "Title", "Name", "TitleText", "NameText"} |->
        CASE n = "Query" -> TypeData("OBJECT",
                            <<Fld("title", Obj("Title"), <<Arg("id", NonNull(Scalar("ID")))>>),
                              Fld("name", Obj("Name"), <<Arg("id", NonNull(Scalar("ID")))>>)>>,
                            <<>>)
          [] n = "Title" -> TypeData("OBJECT",
                            <<Fld("id", NonNull(Scalar("ID")), <<>>),
                              Fld("titleText", NonNull(Obj("TitleText")), <<>>),
                              Fld("releaseYear", Scalar("Int"), <<>>),
                              Fld("principal", Obj("Name"), <<>>),
                              Fld("sequel", Obj("Title"), <<>>)>>, <<>>)
          [] n = "Name" -> TypeData("OBJECT",
                            <<Fld("id", NonNull(Scalar("ID")), <<>>),
                              Fld("nameText", Obj("NameText"), <<>>),
                              Fld("knownFor", NonNull(ListOf(NonNull(Obj("Title")))), <<>>)>>,
                            <<>>)
          [] n = "TitleText" -> TypeData("OBJECT",
                            <<Fld("text", NonNull(Scalar("String")), <<>>)>>, <<>>)
          [] n = "NameText" -> TypeData("OBJECT",
                            <<Fld("text", NonNull(Scalar("String")), <<>>)>>, <<>>)]

\* Scenario A of the specification: Query.title(id: ID!): Title
ScenarioASchema ==
    [n \in {"Query", "Title", "TitleText"} |->
        CASE n = "Query" -> TypeData("OBJECT",
                            <<Fld("title", Obj("Title"), <<Arg("id", NonNull(Scalar("ID")))>>)>>,
                            <<>>)
          [] n = "Title" -> TypeData("OBJECT",
                            <<Fld("id", NonNull(Scalar("ID")), <<>>),
                              Fld("titleText", NonNull(Obj("TitleText")), <<>>),
                              Fld("releaseYear", Scalar("Int"), <<>>)>>, <<>>)
          [] n = "TitleText" -> TypeData("OBJECT",
                            <<Fld("text", NonNull(Scalar("String")), <<>>)>>, <<>>)]

\* Scenario A with a TitleText whose only field needs an argument
ScenarioA2Schema ==
    [n \in {"Query", "Title", "TitleText"} |->
        IF n = "TitleText"
        THEN TypeData("OBJECT",
                 <<Fld("localized", Scalar("String"),
                       <<Arg("lang", NonNull(Scalar("String")))>>)>>, <<>>)
        ELSE ScenarioASchema[n]]

\* Scenario B of the specification: a connection, its edge and its node
ScenarioBSchema ==
    [n \in {"Query", "XConnection", "XEdge", "X", "PageInfo"} |->
        CASE n = "Query" -> TypeData("OBJECT",
                            <<Fld("xs", NonNull(Obj("XConnection")),
                                  <<Arg("first", Scalar("Int"))>>)>>, <<>>)
          [] n = "XConnection" -> TypeData("OBJECT",
                            <<Fld("edges", NonNull(ListOf(NonNull(Obj("XEdge")))), <<>>),
                              Fld("pageInfo", NonNull(Obj("PageInfo")), <<>>),
                              Fld("total", Scalar("Int"), <<>>)>>, <<>>)
          [] n = "XEdge" -> TypeData("OBJECT",
                            <<Fld("node", NonNull(Obj("X")), <<>>),
                              Fld("cursor", NonNull(Scalar("String")), <<>>)>>, <<>>)
          [] n = "X" -> TypeData("OBJECT",
                            <<Fld("id", NonNull(Scalar("ID")), <<>>),
                              Fld("name", Scalar("String"), <<>>),
                              Fld("value", Scalar("Int"), <<>>),
                              Fld("rank", Scalar("Int"), <<>>),
                              Fld("parent", Obj("X"), <<>>)>>, <<>>)
          [] n = "PageInfo" -> TypeData("OBJECT",
                            <<Fld("hasNextPage", NonNull(Scalar("Boolean")), <<>>),
                              Fld("hasPreviousPage", NonNull(Scalar("Boolean")), <<>>),
                              Fld("startCursor", Scalar("String"), <<>>),
                              Fld("endCursor", Scalar("String"), <<>>)>>, <<>>)]

\* self-referential object types
SelfRefSchema ==
    [n \in {"A", "B"} |->
        CASE n = "A" -> TypeData("OBJECT",
                            <<Fld("id", NonNull(Scalar("ID")), <<>>),
                              Fld("field", Obj("A"), <<>>),
                              Fld("summary", Obj("A"), <<>>)>>, <<>>)
          [] n = "B" -> TypeData("OBJECT", <<Fld("field", Obj("B"), <<>>)>>, <<>>)]

\* a connection without pageInfo and total, an edge without cursor, a node
\* without id, and an id that takes a required argument
OddSchema ==
    [n \in {"Query", "YConnection", "YEdge", "Y", "Z"} |->
        CASE n = "Query" -> TypeData("OBJECT",
                            <<Fld("ys", Obj("YConnection"), <<>>),
                              Fld("lastEdge", Obj("YEdge"), <<>>),
                              Fld("z", Obj("Z"), <<>>)>>, <<>>)
          [] n = "YConnection" -> TypeData("OBJECT",
                            <<Fld("edges", ListOf(Obj("YEdge")), <<>>)>>, <<>>)
          [] n = "YEdge" -> TypeData("OBJECT", <<Fld("node", Obj("Y"), <<>>)>>, <<>>)
          [] n = "Y" -> TypeData("OBJECT", <<Fld("label", Scalar("String"), <<>>)>>, <<>>)
          [] n = "Z" -> TypeData("OBJECT",
                            <<Fld("id", Scalar("ID"),
                                  <<Arg("format", NonNull(Scalar("String")))>>),
                              Fld("value", Scalar("Int"), <<>>)>>, <<>>)]

\* a root whose arguments are an input type and a list of enum values, and a
\* hub that refers to more types of every bucket than the caps let through
WideSchema ==
    [n \in {"Query", "Hub", "SearchFilter", "HubSort", "Mode", "Title",
            "AConnection", "BConnection", "CConnection", "DConnection", "Extra",
            "Genre"} |->
        CASE n = "Query" -> TypeData("OBJECT",
                            <<Fld("search", Obj("Hub"),
                                  <<Arg("filter", NonNull(Inp("SearchFilter"))),
                                    Arg("genres", NonNull(ListOf(NonNull(Enum("Genre")))))>>),
                              Fld("meta", Obj("__Type"), <<>>)>>, <<>>)
          [] n = "Hub" -> TypeData("OBJECT",
                            <<Fld("id", NonNull(Scalar("ID")), <<>>),
                              Fld("title", Obj("Title"), <<>>),
                              Fld("as", Obj("AConnection"), <<>>),
                              Fld("bs", Obj("BConnection"), <<>>),
                              Fld("cs", Obj("CConnection"), <<>>),
                              Fld("ds", Obj("DConnection"), <<>>),
                              Fld("genre", Enum("Genre"), <<>>),
                              Fld("items", ListOf(Obj("Extra")),
                                  <<Arg("sort", Inp("HubSort")),
                                    Arg("mode", Enum("Mode"))>>)>>, <<>>)
          [] n \in {"SearchFilter", "HubSort"} ->
                TypeData("INPUT_OBJECT", <<>>, <<Fld("term", Scalar("String"), <<>>)>>)
          [] n \in {"Mode", "Genre"} -> TypeData("ENUM", <<>>, <<>>)
          [] OTHER -> TypeData("OBJECT", <<Fld("id", NonNull(Scalar("ID")), <<>>)>>, <<>>)]

\* a type with scalar, enum and custom-scalar fields and two sibling fields of one type
LeafySchema ==
    [n \in {"Film", "Part", "Genre", "Stamp"} |->
        CASE n = "Film" ->
                TypeData("OBJECT",
                         <<Fld("id", NonNull(Scalar("ID")), <<>>),
                           Fld("rating", Scalar("Float"), <<>>),
                           Fld("genre", Enum("Genre"), <<>>),
                           Fld("stamp", Scalar("Stamp"), <<>>),
                           Fld("plotText", Obj("Part"), <<>>),
                           Fld("taglineText", NonNull(Obj("Part")), <<>>)>>, <<>>)
          [] n = "Part" ->
                TypeData("OBJECT", <<Fld("text", NonNull(Scalar("String")), <<>>)>>, <<>>)
          [] n = "Genre" -> TypeData("ENUM", <<>>, <<>>)
          [] OTHER -> TypeData("SCALAR", <<>>, <<>>)]

\* an edge whose node is not the type its name suggests, and a cycle that runs
\* through an object, a connection and an edge
CrossedSchema ==
    [n \in {"X", "XConnection", "XEdge", "Y"} |->
        CASE n = "X" -> TypeData("OBJECT",
                            <<Fld("id", NonNull(Scalar("ID")), <<>>),
                              Fld("name", Scalar("String"), <<>>),
                              Fld("rank", Scalar("Int"), <<>>),
                              Fld("xs", Obj("XConnection"), <<>>),
                              Fld("lastEdge", Obj("XEdge"), <<>>)>>, <<>>)
          [] n = "XConnection" -> TypeData("OBJECT",
                            <<Fld("edges", NonNull(ListOf(NonNull(Obj("XEdge")))), <<>>),
                              Fld("total", Scalar("Int"), <<>>)>>, <<>>)
          [] n = "XEdge" -> TypeData("OBJECT",
                            <<Fld("node", NonNull(Obj("Y")), <<>>),
                              Fld("cursor", NonNull(Scalar("String")), <<>>)>>, <<>>)
          [] OTHER -> TypeData("OBJECT",
                            <<Fld("id", NonNull(Scalar("ID")), <<>>),
                              Fld("title", Scalar("String"), <<>>),
                              Fld("parent", Obj("X"), <<>>)>>, <<>>)]

\* a Title whose fields are all of the regular tier, a connection among them,
\* and a cycle Name -> XConnection -> XEdge -> Y -> Name
StaleSchema ==
    [n \in {"Title", "Name", "XConnection", "XEdge", "Y"} |->
        CASE n = "Title" -> TypeData("OBJECT",
                            <<Fld("id", NonNull(Scalar("ID")), <<>>),
                              Fld("principal", Obj("Name"), <<>>),
                              Fld("xs", Obj("XConnection"), <<>>)>>, <<>>)
          [] n = "Name" -> TypeData("OBJECT",
                            <<Fld("id", NonNull(Scalar("ID")), <<>>),
                              Fld("name", Scalar("String"), <<>>),
                              Fld("knownFor", Obj("XConnection"), <<>>)>>, <<>>)
          [] n = "XConnection" -> TypeData("OBJECT",
                            <<Fld("edges", ListOf(Obj("XEdge")), <<>>),
                              Fld("total", Scalar("Int"), <<>>)>>, <<>>)
          [] n = "XEdge" -> TypeData("OBJECT",
                            <<Fld("node", Obj("Y"), <<>>),
                              Fld("cursor", Scalar("String"), <<>>)>>, <<>>)
          [] OTHER -> TypeData("OBJECT",
                            <<Fld("id", NonNull(Scalar("ID")), <<>>),
                              Fld("title", Scalar("String"), <<>>),
                              Fld("parent", Obj("Name"), <<>>)>>, <<>>)]

CrawlSchemaIds == {"deep", "cyclic", "wide"}
SynthSchemaIds ==
    {"cyclic", "scenarioA", "scenarioA2", "scenarioB", "selfref", "odd", "leafy", "crossed",
     "stale"}

SchemaOf(id) ==
    CASE id = "deep" -> DeepSchema
      [] id = "cyclic" -> CyclicSchema
      [] id = "wide" -> WideSchema
      [] id = "scenarioA" -> ScenarioASchema
      [] id = "scenarioA2" -> ScenarioA2Schema
      [] id = "scenarioB" -> ScenarioBSchema
      [] id = "selfref" -> SelfRefSchema
      [] id = "odd" -> OddSchema
      [] id = "leafy" -> LeafySchema
      [] id = "crossed" -> CrossedSchema
      [] id = "stale" -> StaleSchema

\* no synthesis call has been made
NoRequest == [fn |-> "none", name |-> "", type |-> <<>>, depth |-> 0, visited |-> {},
              max_fields |-> <<>>, flag |-> FALSE]
NoResult == [returned |-> FALSE, none |-> FALSE, text |-> <<>>]

(***************************************************************************)
(* The introspection request and its response                              *)
(***************************************************************************)
\* levels of type { ofType { ... } } the query asks for (lines 87-102, 106-117, 124-139)
FieldTypeLevels == 4
ArgTypeLevels == 3
InputFieldTypeLevels == 4

\* what the endpoint returns of a type chain when the query selects k levels
Selected(t, k) == Take(t, k)

\* data['data']['__type'] of the response for type_name (a record, or NoType)
NoType == [kind |-> "", fields |-> <<>>, inputFields |-> <<>>]

ResponseType(id, n) ==
    IF n \notin DOMAIN SchemaOf(id) THEN NoType
    ELSE LET td == SchemaOf(id)[n] IN
         [kind |-> td.kind,
          fields |-> [i \in 1..Len(td.fields) |->
              [name |-> td.fields[i].name,
               type |-> Selected(td.fields[i].type, FieldTypeLevels),
               args |-> [j \in 1..Len(td.fields[i].args) |->
                   [name |-> td.fields[i].args[j].name,
                    type |-> Selected(td.fields[i].args[j].type, ArgTypeLevels)]]]],
          inputFields |-> [i \in 1..Len(td.inputFields) |->
              [name |-> td.inputFields[i].name,
               type |-> Selected(td.inputFields[i].type, InputFieldTypeLevels),
               args |-> <<>>]]]

RECURSIVE get_type_string(_)
get_type_string(t) ==
    IF t = <<>> THEN <<"Unknown">>
    ELSE IF Head(t).kind = "NON_NULL" THEN get_type_string(Tail(t)) \o <<"!">>
    ELSE IF Head(t).kind = "LIST" THEN <<"[">> \o get_type_string(Tail(t)) \o <<"]">>
    ELSE IF Head(t).name # "" THEN <<Head(t).name>>
    ELSE IF Tail(t) # <<>> THEN get_type_string(Tail(t))
    ELSE <<"(?)">>

RECURSIVE extract_type_names(_)
extract_type_names(t) ==
    IF t = <<>> THEN {}
    ELSE (IF Head(t).name # ""
             /\ Head(t).kind \in {"OBJECT", "INPUT_OBJECT", "ENUM", "INTERFACE", "UNION"}
          THEN {Head(t).name} ELSE {})
         \cup extract_type_names(Tail(t))

\* a lexeme of a stored type string that is not part of the name
IsWrapper(x) == x \in {"!", "[", "]"}

\* .replace('!', '').replace('[', '').replace(']', '').strip()
CleanType(t) ==
    LET r == SelectSeq(t, LAMBDA x : ~IsWrapper(x))
    IN  IF r = <<>> THEN "" ELSE r[1]

\* lines 196-211: the stored arguments of a field
ProcessedArgs(f) ==
    [j \in 1..Len(f.args) |->
        [name |-> f.args[j].name, type |-> get_type_string(f.args[j].type)]]

\* lines 206-208: the type names of a field's arguments
ArgTypeNames(f) == UNION {extract_type_names(f.args[j].type) : j \in 1..Len(f.args)}

\* a mutation of RegistryEntry: all_related_types leaves out the argument types
RegistryEntry_WithoutArguments(n, d, td) ==
    LET all_fields == td.fields \o td.inputFields
        related_types ==
            UNION {extract_type_names(all_fields[i].type) : i \in 1..Len(all_fields)}
        argument_types ==
            UNION {ArgTypeNames(all_fields[i]) : i \in 1..Len(all_fields)}
    IN  [name |-> n,
         kind |-> td.kind,
         depth |-> d,
         fields |-> [i \in 1..Len(all_fields) |->
             [name |-> all_fields[i].name,
              type |-> get_type_string(all_fields[i].type),
              args |-> ProcessedArgs(all_fields[i])]],
         related_types |-> Sorted(related_types),
         argument_types |-> Sorted(argument_types),
         all_related_types |-> Sorted(related_types),
         field_count |-> Len(all_fields)]

\* a mutation of RegistryEntry: the depth recorded is one more than the call's
RegistryEntry_DepthPlusOne(n, d, td) ==
    LET all_fields == td.fields \o td.inputFields
        related_types ==
            UNION {extract_type_names(all_fields[i].type) : i \in 1..Len(all_fields)}
        argument_types ==
            UNION {ArgTypeNames(all_fields[i]) : i \in 1..Len(all_fields)}
    IN  [name |-> n,
         kind |-> td.kind,
         depth |-> d + 1,
         fields |-> [i \in 1..Len(all_fields) |->
             [name |-> all_fields[i].name,
              type |-> get_type_string(all_fields[i].type),
              args |-> ProcessedArgs(all_fields[i])]],
         related_types |-> Sorted(related_types),
         argument_types |-> Sorted(argument_types),
         all_related_types |-> Sorted(related_types \cup argument_types),
         field_count |-> Len(all_fields)]

\* a mutation of RegistryEntry: field_count leaves out the input fields
RegistryEntry_CountsFieldsOnly(n, d, td) ==
    LET all_fields == td.fields \o td.inputFields
        related_types ==
            UNION {extract_type_names(all_fields[i].type) : i \in 1..Len(all_fields)}
        argument_types ==
            UNION {ArgTypeNames(all_fields[i]) : i \in 1..Len(all_fields)}
    IN  [name |-> n,
         kind |-> td.kind,
         depth |-> d,
         fields |-> [i \in 1..Len(all_fields) |->
             [name |-> all_fields[i].name,
              type |-> get_type_string(all_fields[i].type),
              args |-> ProcessedArgs(all_fields[i])]],
         related_types |-> Sorted(related_types),
         argument_types |-> Sorted(argument_types),
         all_related_types |-> Sorted(related_types \cup argument_types),
         field_count |-> Len(td.fields)]

\* lines 171-242: the registry entry built from a response
RegistryEntry(n, d, td) ==
    LET all_fields == td.fields \o td.inputFields
        related_types ==
            UNION {extract_type_names(all_fields[i].type) : i \in 1..Len(all_fields)}
        argument_types ==
            UNION {ArgTypeNames(all_fields[i]) : i \in 1..Len(all_fields)}
    IN  [name |-> n,
         kind |-> td.kind,
         depth |-> d,
         fields |-> [i \in 1..Len(all_fields) |->
             [name |-> all_fields[i].name,
              type |-> get_type_string(all_fields[i].type),
              args |-> ProcessedArgs(all_fields[i])]],
         related_types |-> Sorted(related_types),
         argument_types |-> Sorted(argument_types),
         all_related_types |-> Sorted(related_types \cup argument_types),
         field_count |-> Len(all_fields)]

(***************************************************************************)
(* fetch_introspection_data                                                *)
(***************************************************************************)
\* the literal 5 of "depth < 5" (lines 265, 272)
CrawlDepthLimit == 5
\* connection_types[:3] and other_types[:2] (line 292)
ConnectionCap == 3
OtherCap == 2

Frame(n, d, ph, todo) == [name |-> n, depth |-> d, phase |-> ph, todo |-> todo]
Top == stack[Len(stack)]
Below == SubSeq(stack, 1, Len(stack) - 1)

\* a mutation of MarkIntrospected: the name is not recorded
MarkIntrospected_Forgets(known, n) == known

\* line 65: introspected_types.add(type_name)
MarkIntrospected(known, n) == known \cup {n}

\* a mutation of AlreadyIntrospected: the membership test never succeeds
AlreadyIntrospected_Never(known, n) == FALSE

\* "type_name in introspected_types" (lines 57, 255, 280, 297 and the callers' guards)
AlreadyIntrospected(known, n) == n \in known

\* lines 57-63: the two early returns
SkipsFetch(known, n) == AlreadyIntrospected(known, n) \/ IsBuiltinName(n)

\* a mutation of ReturnFromFailure: the error unwinds every active call
ReturnFromFailure_Aborts(stk) == <<>>

\* lines 167-169, 308-316: "return {}" hands control back to the caller's loop
ReturnFromFailure(stk) == SubSeq(stk, 1, Len(stk) - 1)

Bump(c) == IF c < ReqCap THEN c + 1 ELSE c
Max(a, b) == IF a > b THEN a ELSE b

\* lines 56-66 and 152-160: a call fetch_introspection_data(n, d) made above the
\* frames `base`; it returns at once, or marks n known and sends the request
EnterFetch(n, d, base) ==
    IF SkipsFetch(introspected_types, n)
    THEN /\ stack' = base
         /\ UNCHANGED <<introspected_types, requests, fetchDepth>>
    ELSE /\ introspected_types' = MarkIntrospected(introspected_types, n)
         /\ requests' = [requests EXCEPT ![n] = Bump(@)]
         /\ fetchDepth' = [fetchDepth EXCEPT ![n] = Max(@, d)]
         /\ stack' = base \o <<Frame(n, d, "request", <<>>)>>

\* lines 246, 254: sorted(constraint_types) of the Query branch
QueryConstraintTypes(entry) == SelectSeq(entry.argument_types, HasConstraintKeyword)

\* a mutation of PriorityOrder: the Connection names are not capped
PriorityOrder_AllConnections(all_related_types, known) ==
    LET remaining == SelectSeq(all_related_types, LAMBDA t : ~AlreadyIntrospected(known, t))
        capped == SelectSeq(remaining, LAMBDA t : /\ ~HasConstraintKeyword(t)
                                                 /\ ~IsImportantName(t)
                                                 /\ ~HasConnection(t))
    IN  SelectSeq(remaining, HasConstraintKeyword)
            \o SelectSeq(remaining, LAMBDA t : ~HasConstraintKeyword(t) /\ IsImportantName(t))
            \o SelectSeq(remaining, LAMBDA t : /\ ~HasConstraintKeyword(t)
                                               /\ ~IsImportantName(t)
                                               /\ HasConnection(t))
            \o Take(capped, OtherCap)

\* lines 273-292: priority_order
PriorityOrder(all_related_types, known) ==
    LET remaining == SelectSeq(all_related_types, LAMBDA t : ~AlreadyIntrospected(known, t))
        constraint_types == SelectSeq(remaining, HasConstraintKeyword)
        important_types ==
            SelectSeq(remaining, LAMBDA t : ~HasConstraintKeyword(t) /\ IsImportantName(t))
        connection_types ==
            SelectSeq(remaining, LAMBDA t : /\ ~HasConstraintKeyword(t)
                                           /\ ~IsImportantName(t)
                                           /\ HasConnection(t))
        other_types ==
            SelectSeq(remaining, LAMBDA t : /\ ~HasConstraintKeyword(t)
                                           /\ ~IsImportantName(t)
                                           /\ ~HasConnection(t))
    IN  constraint_types \o important_types \o Take(connection_types, ConnectionCap)
            \o Take(other_types, OtherCap)

\* lines 272-292: the work of the priority loop of a frame
RelatedTodo(entry, d, known) ==
    IF d < CrawlDepthLimit THEN PriorityOrder(entry.all_related_types, known) ELSE <<>>

\* lines 244-247: does the Query branch run
QueryBranchRuns(entry) ==
    entry.name = "Query" /\ entry.argument_types # <<>>

\* lines 313-316, 308-311: the request raises, or the status is not 2xx
FetchFails ==
    /\ stack # <<>> /\ Top.phase = "request"
    /\ stack' = ReturnFromFailure(stack)
    /\ UNCHANGED <<schema, mainpc, introspected_types, detailed_introspection_data,
                   requests, fetchDepth, request, result>>

\* lines 162-242: a 2xx response; no __type data returns at once, otherwise the
\* entry is stored and the frame goes on to its loops
FetchResponds ==
    /\ stack # <<>> /\ Top.phase = "request"
    /\ LET td == ResponseType(schema, Top.name)
           entry == RegistryEntry(Top.name, Top.depth, td)
       IN  IF td = NoType
           THEN /\ stack' = ReturnFromFailure(stack)
                /\ UNCHANGED detailed_introspection_data
           ELSE /\ detailed_introspection_data' =
                       (Top.name :> entry) @@ detailed_introspection_data
                /\ stack' = Below \o
                     <<IF QueryBranchRuns(entry)
                       THEN Frame(Top.name, Top.depth, "constraints",
                                  QueryConstraintTypes(entry))
                       ELSE Frame(Top.name, Top.depth, "related",
                                  RelatedTodo(entry, Top.depth, introspected_types))>>
    /\ UNCHANGED <<schema, mainpc, introspected_types, requests, fetchDepth,
                   request, result>>

\* lines 254-262: one iteration of the Query branch's loop, or its end
ConstraintStep ==
    /\ stack # <<>> /\ Top.phase = "constraints"
    /\ IF Top.todo = <<>>
       THEN /\ stack' = Below \o
                   <<Frame(Top.name, Top.depth, "related",
                           RelatedTodo(detailed_introspection_data[Top.name], Top.depth,
                                       introspected_types))>>
            /\ UNCHANGED <<introspected_types, requests, fetchDepth>>
       ELSE LET rest == Below \o <<Frame(Top.name, Top.depth, "constraints", Tail(Top.todo))>>
            IN  IF ~AlreadyIntrospected(introspected_types, Head(Top.todo))
                THEN EnterFetch(Head(Top.todo), Top.depth + 1, rest)
                ELSE /\ stack' = rest
                     /\ UNCHANGED <<introspected_types, requests, fetchDepth>>
    /\ UNCHANGED <<schema, mainpc, detailed_introspection_data, request, result>>

\* lines 294-306: one iteration of the priority loop, or the return at its end
RelatedStep ==
    /\ stack # <<>> /\ Top.phase = "related"
    /\ IF Top.todo = <<>>
       THEN /\ stack' = Below
            /\ UNCHANGED <<introspected_types, requests, fetchDepth>>
       ELSE LET rest == Below \o <<Frame(Top.name, Top.depth, "related", Tail(Top.todo))>>
            IN  IF ~AlreadyIntrospected(introspected_types, Head(Top.todo))
                THEN EnterFetch(Head(Top.todo), Top.depth + 1, rest)
                ELSE /\ stack' = rest
                     /\ UNCHANGED <<introspected_types, requests, fetchDepth>>
    /\ UNCHANGED <<schema, mainpc, detailed_introspection_data, request, result>>

(***************************************************************************)
(* main                                                                    *)
(***************************************************************************)
\* a snapshot file: the entries an earlier run stored for `keys`
SnapshotOf(id, keys) == [n \in keys |-> RegistryEntry(n, 0, ResponseType(id, n))]

SnapshotKeys(id) ==
    CASE id = "deep" -> {{"Holder"}, {"Query", "SearchFilter", "P0"}}
      [] id = "cyclic" -> {{"Query", "Title"}, {"Title", "TitleText"}}
      [] id = "wide" -> {{"Hub", "Title"}}

\* lines 3675-3677: no snapshot file; lines 3631-3636, 3667-3670: a file that
\* cannot be read as a snapshot, the registry is reset before any key is known
StartWithoutSnapshot ==
    /\ mainpc = "start"
    /\ detailed_introspection_data' = <<>>
    /\ mainpc' = "query"
    /\ UNCHANGED <<schema, introspected_types, stack, requests, fetchDepth,
                   request, result>>

\* a mutation of LoadSnapshot: the keys of the snapshot are not made known
LoadSnapshot_WithoutKnown ==
    /\ mainpc = "start"
    /\ \E keys \in SnapshotKeys(schema) :
          detailed_introspection_data' = SnapshotOf(schema, keys)
    /\ mainpc' = "menu"
    /\ UNCHANGED <<schema, introspected_types, stack, requests, fetchDepth, request, result>>

\* lines 3617-3641: the snapshot is loaded and its keys become known
LoadSnapshot ==
    /\ mainpc = "start"
    /\ \E keys \in SnapshotKeys(schema) :
          /\ detailed_introspection_data' = SnapshotOf(schema, keys)
          /\ introspected_types' = introspected_types \cup keys
    /\ mainpc' = "menu"
    /\ UNCHANGED <<schema, stack, requests, fetchDepth, request, result>>

\* lines 3640-3674: the keys of the snapshot become known, then the summary of
\* the loaded data raises (a kind that is not a string makes kind_counts[kind]
\* raise) and the handler resets the registry only; an empty registry means no
\* menu, so main goes on to the fresh crawl
LoadSnapshotSummaryFails ==
    /\ mainpc = "start"
    /\ \E keys \in SnapshotKeys(schema) :
          introspected_types' = introspected_types \cup keys
    /\ detailed_introspection_data' = <<>>
    /\ mainpc' = "query"
    /\ UNCHANGED <<schema, stack, requests, fetchDepth, request, result>>

\* lines 3702-3719: choice 2, update the loaded data
ChooseUpdate ==
    /\ mainpc = "menu"
    /\ mainpc' = "followup"
    /\ UNCHANGED <<schema, introspected_types, detailed_introspection_data, stack,
                   requests, fetchDepth, request, result>>

\* a mutation of ChooseFresh: the known set is cleared, the registry is kept
ChooseFresh_KeepsRegistry ==
    /\ mainpc = "menu"
    /\ introspected_types' = {}
    /\ mainpc' = "query"
    /\ UNCHANGED <<schema, detailed_introspection_data, stack, requests, fetchDepth,
                   request, result>>

\* lines 3727-3730: choice 3, the registry and the known set are reset
ChooseFresh ==
    /\ mainpc = "menu"
    /\ detailed_introspection_data' = <<>>
    /\ introspected_types' = {}
    /\ mainpc' = "query"
    /\ UNCHANGED <<schema, stack, requests, fetchDepth, request, result>>

\* lines 3733, 3759: fetch_introspection_data('Query')
IntrospectQuery ==
    /\ mainpc = "query"
    /\ EnterFetch("Query", 0, <<>>)
    /\ mainpc' = "followup"
    /\ UNCHANGED <<schema, detailed_introspection_data, request, result>>

\* lines 3522-3540: the type name of a stored type string, if it is one to fetch
extract_type_names_from_string(t) ==
    IF t = <<>> \/ CleanType(t) = "" \/ IsBuiltinName(CleanType(t)) THEN {}
    ELSE {CleanType(t)}

\* the names the registry refers to (lines 3405-3420)
ReferencedTypes ==
    UNION {SeqToSet(detailed_introspection_data[n].all_related_types)
           \cup UNION {extract_type_names_from_string(
                           detailed_introspection_data[n].fields[i].type) :
                       i \in 1..Len(detailed_introspection_data[n].fields)} :
              n \in DOMAIN detailed_introspection_data}

\* lines 3360, 3391, 3140, 3155, 3466, 3504: a follow-up pass calls
\* fetch_introspection_data(t, depth=0) for a referenced type that is not known
FollowUpFetch ==
    /\ mainpc = "followup" /\ stack = <<>>
    /\ \E t \in ReferencedTypes :
          /\ ~AlreadyIntrospected(introspected_types, t)
          /\ ~IsBuiltinName(t)
          /\ EnterFetch(t, 0, <<>>)
    /\ UNCHANGED <<schema, mainpc, detailed_introspection_data, request, result>>

Init ==
    /\ schema \in CrawlSchemaIds
    /\ mainpc = "start"
    /\ introspected_types = {}
    /\ detailed_introspection_data = <<>>
    /\ stack = <<>>
    /\ requests = [n \in TypeNames |-> 0]
    /\ fetchDepth = [n \in TypeNames |-> 0]
    /\ request = NoRequest
    /\ result = NoResult

Next ==
    \/ StartWithoutSnapshot
    \/ LoadSnapshot
    \/ LoadSnapshotSummaryFails
    \/ ChooseUpdate
    \/ ChooseFresh
    \/ IntrospectQuery
    \/ FollowUpFetch
    \/ FetchFails
    \/ FetchResponds
    \/ ConstraintStep
    \/ RelatedStep

Spec == Init /\ [][Next]_vars

\* the scheduling of a crawl: a call that is active takes its next step
CrawlStep == FetchFails \/ FetchResponds \/ ConstraintStep \/ RelatedStep

LiveSpec == Spec /\ WF_vars(CrawlStep)

(***************************************************************************)
(* Properties of the crawler                                               *)
(***************************************************************************)
Registry == detailed_introspection_data
Registered == DOMAIN detailed_introspection_data
Idle == stack = <<>>
RefersTo(n, t) == n \in Registered /\ t \in SeqToSet(Registry[n].all_related_types)
FetchedThisRun(n) == requests[n] >= 1
OnStack(n) == \E i \in 1..Len(stack) : stack[i].name = n

\* C1: in a crawl each type name triggers at most one introspection request,
\* whether it is referenced from several parents, reached again through a
\* cycle, or its first fetch failed.
C1_AtMostOneRequest == \A n \in TypeNames : requests[n] <= 1

\* a type whose only request failed, referenced by two types fetched after it
\* was first asked for, with the crawl over
C1_Witness ==
    /\ Idle
    /\ \E n \in TypeNames :
          /\ requests[n] = 1 /\ n \notin Registered
          /\ \E a, b \in Registered :
                a # b /\ FetchedThisRun(a) /\ FetchedThisRun(b)
                /\ RefersTo(a, n) /\ RefersTo(b, n)

\* C2: no type is fetched, and no registry entry records a depth, beyond the
\* depth limit of 5; for the priority loop and for the Query branch alike.
C2_DepthBound ==
    /\ \A n \in TypeNames : fetchDepth[n] <= CrawlDepthLimit
    /\ \A n \in Registered : Registry[n].depth <= CrawlDepthLimit

\* C3: under fair scheduling a crawl that has a pending fetch reaches a state
\* with none, having sent at most one request per type name.
C3_CrawlTerminates ==
    (~Idle) ~> (Idle /\ \A n \in TypeNames : requests[n] <= 1)

\* a crawl over the cyclic schema is over, one of its fetches having failed
C3_Witness ==
    /\ Idle /\ schema = "cyclic"
    /\ FetchedThisRun("Title") /\ "Title" \in Registered
    /\ FetchedThisRun("Name") /\ "Name" \in Registered
    /\ \E n \in TypeNames : FetchedThisRun(n) /\ n \notin Registered

\* C4: a failed fetch (error, non-2xx status, no __type data) leaves the name
\* known and unregistered, changes nothing else than handing control back to
\* the loop of its caller, whose remaining siblings are untouched; and once a
\* type's call has returned, each of its references of an uncapped bucket
\* has been asked for.
FailedFetchStep ==
    /\ stack # <<>> /\ Top.phase = "request"
    /\ Top.name \notin DOMAIN detailed_introspection_data'

UncappedDrained ==
    \A n \in Registered :
        (FetchedThisRun(n) /\ ~OnStack(n) /\ Registry[n].depth < CrawlDepthLimit)
        => \A t \in SeqToSet(Registry[n].all_related_types) :
              (HasConstraintKeyword(t) \/ IsImportantName(t)) => t \in introspected_types

C4_FailureIsLocal ==
    /\ [][FailedFetchStep =>
            /\ Top.name \in introspected_types'
            /\ introspected_types' = introspected_types
            /\ detailed_introspection_data' = detailed_introspection_data
            /\ stack' = Below]_vars
    /\ []UncappedDrained

\* Name, first in Query's priority order, failed; its sibling Title was then
\* fetched at depth 1
C4_Witness ==
    /\ schema = "cyclic" /\ Idle
    /\ requests["Name"] = 1 /\ "Name" \notin Registered
    /\ requests["Title"] = 1 /\ "Title" \in Registered
    /\ Registry["Title"].depth = 1
    /\ "Query" \in Registered /\ FetchedThisRun("Query")

\* the names the schema's type n refers to in arguments, and in field types
SchemaArgumentTypes(id, n) ==
    LET td == SchemaOf(id)[n]
        fs == td.fields \o td.inputFields
    IN  UNION {{fs[i].args[j].type[Len(fs[i].args[j].type)].name :
                  j \in 1..Len(fs[i].args)} : i \in 1..Len(fs)}

SchemaFieldTypes(id) ==
    UNION {LET fs == SchemaOf(id)[n].fields \o SchemaOf(id)[n].inputFields
           IN  {fs[i].type[Len(fs[i].type)].name : i \in 1..Len(fs)} :
           n \in DOMAIN SchemaOf(id)}

\* the argument types of n that no field of the schema returns
ArgumentOnlyTypes(id, n) ==
    {t \in SchemaArgumentTypes(id, n) : ~IsBuiltinName(t) /\ t \notin SchemaFieldTypes(id)}

\* the call that fetched n in this run, at a depth below the limit, has returned
CallReturned(n) ==
    /\ n \in Registered /\ FetchedThisRun(n) /\ ~OnStack(n)
    /\ Registry[n].depth < CrawlDepthLimit

\* t was not known before this run asked for it
NotFromSnapshot(t) == t \in introspected_types => FetchedThisRun(t)

\* C11 as stated: once the call for a type at depth d < 5 has returned, each
\* type that only its arguments refer to, and that was not known before, has
\* been fetched at depth d + 1.
C11_ArgumentTypeFetchedAtNextDepth ==
    \A n \in Registered :
        CallReturned(n) =>
            \A t \in ArgumentOnlyTypes(schema, n) :
                NotFromSnapshot(t) =>
                    FetchedThisRun(t) /\ fetchDepth[t] = Registry[n].depth + 1

\* a loop of the active call is at a name that is not known
ChildFetchStep ==
    /\ stack # <<>> /\ Top.phase \in {"constraints", "related"} /\ Top.todo # <<>>
    /\ ~AlreadyIntrospected(introspected_types, Head(Top.todo))
    /\ ~IsBuiltinName(Head(Top.todo))

\* C11: a name recorded in argument_types of a type fetched at depth d < 5 is
\* fetched at depth d + 1, when the type's loop reaches it and it is not yet
\* known, if it holds Constraint/Search/Sort/Filter/Input or is one of Name,
\* Title, NameText, TitleText: once the type's call has returned such a name
\* is known.  Any other argument type goes through the caps of the priority
\* order (3 Connection names, 2 other names) and is otherwise left to the
\* follow-up passes, which fetch at depth 0.  Scenario C: SearchFilter, an
\* argument type of Query only, is fetched at depth 1.
C11_UncappedArgumentTypeFetched ==
    /\ [][ChildFetchStep =>
            /\ requests'[Head(Top.todo)] = requests[Head(Top.todo)] + 1
            /\ fetchDepth'[Head(Top.todo)] = Top.depth + 1
            /\ Head(Top.todo) \in introspected_types']_vars
    /\ [](\A n \in Registered :
            CallReturned(n) =>
                \A t \in SeqToSet(Registry[n].argument_types) :
                    (HasConstraintKeyword(t) \/ IsImportantName(t))
                    => t \in introspected_types)
    /\ []((CallReturned("Query") /\ Registry["Query"].depth = 0
            /\ "SearchFilter" \in SeqToSet(Registry["Query"].argument_types)
            /\ NotFromSnapshot("SearchFilter"))
           => requests["SearchFilter"] = 1 /\ fetchDepth["SearchFilter"] = 1)
    /\ []((schema = "wide" /\ CallReturned("Hub") /\ NotFromSnapshot("HubSort"))
           => /\ requests["HubSort"] = 1
              /\ fetchDepth["HubSort"] = Registry["Hub"].depth + 1
              /\ fetchDepth["Mode"] = 0)

\* Hub's call at depth 1 has returned: the input type HubSort of its argument
\* was fetched at depth 2, the enum Mode of its other argument was not asked for
C11_Witness ==
    /\ schema = "wide" /\ CallReturned("Hub") /\ Registry["Hub"].depth = 1
    /\ requests["HubSort"] = 1 /\ fetchDepth["HubSort"] = 2
    /\ requests["SearchFilter"] = 1 /\ fetchDepth["SearchFilter"] = 1
    /\ requests["Mode"] = 0

\* the names some snapshot of the model holds
SnapshotNames == {"Holder", "Hub", "P0", "Query", "SearchFilter", "Title", "TitleText"}

\* C12 as stated: once a snapshot is loaded, no name it holds is requested in
\* the rest of the run.
C12_SnapshotNamesNeverRequested ==
    \A n \in SnapshotNames :
        []((mainpc = "menu" /\ n \in Registered) => [](requests[n] = 0))

\* C12: when a snapshot has been loaded every key of it is known, and while
\* the snapshot is kept (choices 1, 2 and 4 of main) no request is sent for a
\* name it holds; the fresh introspection of choice 3 empties the registry and
\* the known set, and fetches such names again.
C12_KeptSnapshotNamesNotRequested ==
    /\ [](mainpc = "menu" => Registered \subseteq introspected_types)
    /\ [][\A n \in Registered : requests[n] = 0 => requests'[n] = 0]_vars
    /\ [][(mainpc = "menu" /\ mainpc' = "query")
            => introspected_types' = {} /\ detailed_introspection_data' = <<>>]_vars

\* an update crawl is over: a type it fetched refers to a name of the snapshot,
\* which was not requested
C12_Witness ==
    /\ Idle /\ mainpc = "followup"
    /\ \E n \in Registered, m \in Registered :
          /\ requests[n] = 0 /\ requests[m] = 1
          /\ Registry[m].depth > 0
          /\ RefersTo(m, n)

(***************************************************************************)
(* The query synthesizer.  A type reference is the sequence of lexemes of  *)
(* the string get_type_string produces ("[XEdge!]!" is "[", "XEdge", "!",  *)
(* "]", "!"); a synthesized text is the sequence of its tokens, "NL" being  *)
(* a line break.  The literal "{ id }" is the three tokens of IdOnly, which *)
(* differs from a built body holding the single line id.                    *)
(***************************************************************************)
\* field_type.endswith('!')
EndsWithBang(t) == t # <<>> /\ t[Len(t)] = "!"

\* [arg for arg in args if arg.get('type', '').endswith('!')]
RequiredArgs(f) == SelectSeq(f.args, LAMBDA a : EndsWithBang(a.type))

\* any keyword of ['date', 'time', 'url', 'uri'] in clean_type.lower(), over TypeNames
LooksLikeCustomScalar(n) == n \in {}

\* 'Text' in t or 'Image' in t or 'Date' in t, over TypeNames
HasTextImageDate(n) == n \in {"NameText", "TitleText"}

\* edge_type.replace('Edge', ''), lexeme by lexeme
WithoutEdge(t) ==
    [i \in 1..Len(t) |->
        CASE t[i] = "XEdge" -> "X"
          [] t[i] = "YEdge" -> "Y"
          [] OTHER -> t[i]]

\* type_name.lower(), over TypeNames
LowerName(n) ==
    CASE n = "A" -> "a"
      [] n = "B" -> "b"
      [] n = "Boolean" -> "boolean"
      [] n = "Float" -> "float"
      [] n = "Holder" -> "holder"
      [] n = "ID" -> "id"
      [] n = "Int" -> "int"
      [] n = "Leaf" -> "leaf"
      [] n = "Name" -> "name"
      [] n = "NameText" -> "nametext"
      [] n = "P0" -> "p0"
      [] n = "P1" -> "p1"
      [] n = "P2" -> "p2"
      [] n = "P3" -> "p3"
      [] n = "P4" -> "p4"
      [] n = "PageInfo" -> "pageinfo"
      [] n = "Query" -> "query"
      [] n = "SearchFilter" -> "searchfilter"
      [] n = "String" -> "string"
      [] n = "Title" -> "title"
      [] n = "TitleText" -> "titletext"
      [] n = "Unknown" -> "unknown"
      [] n = "X" -> "x"
      [] n = "XConnection" -> "xconnection"
      [] n = "XEdge" -> "xedge"
      [] n = "Y" -> "y"
      [] n = "YConnection" -> "yconnection"
      [] n = "YEdge" -> "yedge"
      [] n = "Z" -> "z"
      [] n = "AConnection" -> "aconnection"
      [] n = "BConnection" -> "bconnection"
      [] n = "CConnection" -> "cconnection"
      [] n = "DConnection" -> "dconnection"
      [] n = "Extra" -> "extra"
      [] n = "Film" -> "film"
      [] n = "Genre" -> "genre"
      [] n = "Hub" -> "hub"
      [] n = "HubSort" -> "hubsort"
      [] n = "Mode" -> "mode"
      [] n = "Part" -> "part"
      [] n = "Stamp" -> "stamp"
      [] OTHER -> n

\* field_name.lower() == type_lower or == type_lower + 's', over the names used
LowerNameMatches(f, n) ==
    <<f, n>> \in {<<"as", "A">>, <<"bs", "B">>, <<"genre", "Genre">>, <<"stamp", "Stamp">>,
                  <<"id", "ID">>, <<"leaf", "Leaf">>, <<"name", "Name">>,
                  <<"nameText", "NameText">>, <<"pageInfo", "PageInfo">>,
                  <<"title", "Title">>, <<"titleText", "TitleText">>,
                  <<"xs", "X">>, <<"ys", "Y">>, <<"z", "Z">>}

\* the keyword test of prioritize_scalar_fields, over the field names used
HasScalarKeyword(f) ==
    f \in {"name", "nameText", "plotText", "rank", "rating", "releaseYear", "taglineText",
           "text", "title", "titleText"}

\* the pattern test of prioritize_complex_fields, over the field names used
HasComplexPattern(f, type_name) ==
    CASE type_name = "Title" -> f \in {"plotText", "releaseYear", "titleText"}
      [] type_name = "Name" -> f \in {"knownFor", "nameText"}
      [] OTHER -> f \in {"name", "nameText", "plotText", "rating", "releaseYear", "summary",
                         "taglineText", "text", "title", "titleText"}

\* the "{ id }" literal
IdOnly == <<"{", "id", "}">>

\* "\n".join(lines)
RECURSIVE JoinNL(_)
JoinNL(lines) ==
    IF lines = <<>> THEN <<>>
    ELSE IF Len(lines) = 1 THEN lines[1]
    ELSE lines[1] \o <<"NL">> \o JoinNL(Tail(lines))

\* "{\n" + "\n".join(lines) + "\n}"
Block(lines) == <<"{", "NL">> \o JoinNL(lines) \o <<"NL", "}">>

\* s.strip()
RECURSIVE Strip(_)
Strip(s) ==
    IF s = <<>> THEN <<>>
    ELSE IF Head(s) = "NL" THEN Strip(Tail(s))
    ELSE IF s[Len(s)] = "NL" THEN Strip(SubSeq(s, 1, Len(s) - 1))
    ELSE s

\* one line per field name
NameLines(fs) == [i \in 1..Len(fs) |-> <<fs[i].name>>]

HasFieldNamed(fs, n) == \E i \in 1..Len(fs) : fs[i].name = n

\* next((f for f in fs if f['name'] == n), None), for a name that is there
FieldNamed(fs, n) == fs[CHOOSE i \in 1..Len(fs) : fs[i].name = n
                                                  /\ \A j \in 1..(i - 1) : fs[j].name # n]

FieldsOf(type_name) == Registry[type_name].fields

verify_field_exists_in_type(field_name, type_name) ==
    /\ type_name \in Registered
    /\ HasFieldNamed(FieldsOf(type_name), field_name)

is_scalar_type_validated(field_type, field_name, parent_type) ==
    LET clean_type == CleanType(field_type)
    IN  IF IsBuiltinScalar(clean_type) THEN TRUE
        ELSE IF clean_type \in Registered
             THEN Registry[clean_type].kind \in {"ENUM", "SCALAR"}
        ELSE LooksLikeCustomScalar(clean_type)

prioritize_scalar_fields(scalar_fields) ==
    [priority |-> SelectSeq(scalar_fields, LAMBDA f : HasScalarKeyword(f.name)),
     regular |-> SelectSeq(scalar_fields, LAMBDA f : ~HasScalarKeyword(f.name))]

IsPriorityComplex(f, type_name) ==
    \/ HasComplexPattern(f.name, type_name)
    \/ HasTextImageDate(CleanType(f.type)) /\ ~HasConnection(CleanType(f.type))

prioritize_complex_fields(complex_fields, type_name) ==
    [priority |-> SelectSeq(complex_fields, LAMBDA f : IsPriorityComplex(f, type_name)),
     regular |-> SelectSeq(complex_fields, LAMBDA f : ~IsPriorityComplex(f, type_name))]

\* a mutation of is_field_queryable: no field is queryable
is_field_queryable_Never(field, parent_type) == FALSE

is_field_queryable(field, parent_type) == RequiredArgs(field) = <<>>

\* a mutation of ConnectionScaffold: total comes first
ConnectionScaffold_TotalFirst(node_query) ==
    <<"{", "NL", "total", "NL", "edges", "{", "NL", "node">> \o node_query
    \o <<"NL", "cursor", "NL", "}", "NL",
         "pageInfo", "{", "NL", "hasNextPage", "NL", "hasPreviousPage", "NL",
         "startCursor", "NL", "endCursor", "NL", "}", "NL", "}">>

\* lines 2611-2625, 2764-2778 and 2456-2468: the pagination scaffold around a node body
ConnectionScaffold(node_query) ==
    <<"{", "NL", "edges", "{", "NL", "node">> \o node_query
    \o <<"NL", "cursor", "NL", "}", "NL",
         "pageInfo", "{", "NL", "hasNextPage", "NL", "hasPreviousPage", "NL",
         "startCursor", "NL", "endCursor", "NL", "}", "NL", "total", "NL", "}">>

build_simple_connection_with_id_only(depth) == ConnectionScaffold(Block(<< <<"id">> >>))

build_generic_connection_query(connection_type, depth, visited_types) ==
    ConnectionScaffold(Block(<< <<"id">> >>))

\* a mutation of determine_node_type_from_connection: the node type is read
\* off the connection's name
determine_node_type_from_connection_ByName(connection_type) ==
    CASE CleanType(connection_type) = "XConnection" -> "X"
      [] CleanType(connection_type) = "YConnection" -> "Y"
      [] OTHER -> ""

\* returns "" for None
determine_node_type_from_connection(connection_type) ==
    LET clean_type == CleanType(connection_type)
    IN  IF clean_type \notin Registered THEN ""
        ELSE IF ~HasFieldNamed(FieldsOf(clean_type), "edges") THEN ""
        ELSE LET edge_type_str == CleanType(FieldNamed(FieldsOf(clean_type), "edges").type)
             IN  IF edge_type_str \notin Registered THEN ""
                 ELSE IF ~HasFieldNamed(FieldsOf(edge_type_str), "node") THEN ""
                 ELSE CleanType(FieldNamed(FieldsOf(edge_type_str), "node").type)

\* "{ id }" when nothing was selected, else the lines in braces
BodyOf(selected_fields) ==
    IF selected_fields = <<>> THEN IdOnly ELSE Block(selected_fields)

\* the line "name sub_query", unless sub_query is empty or "{ id }"
AttachSub(name, sub_query) ==
    IF sub_query # <<>> /\ sub_query # IdOnly
    THEN << <<name>> \o sub_query >> ELSE <<>>

\* the line of the id field, if the type has one
IdLines(actual_fields) ==
    IF HasFieldNamed(actual_fields, "id") THEN << <<"id">> >> ELSE <<>>

build_ultra_safe_object_query(type_name, depth) ==
    IF type_name \notin Registered THEN IdOnly
    ELSE IF FieldsOf(type_name) = <<>> THEN IdOnly
    ELSE BodyOf(IdLines(FieldsOf(type_name))
                \o NameLines(Take(SelectSeq(FieldsOf(type_name), LAMBDA f :
                                    /\ f.name # "id"
                                    /\ is_scalar_type_validated(f.type, f.name, type_name)
                                    /\ RequiredArgs(f) = <<>>
                                    /\ verify_field_exists_in_type(f.name, type_name)),
                                  2)))

\* lines 2413-2422: with no scalar added, the first complex field
FallbackComplexLines(node_type, depth, fields_added, verified_complex_fields) ==
    IF /\ fields_added = 0 /\ verified_complex_fields # <<>>
       /\ verify_field_exists_in_type(verified_complex_fields[1].name, node_type)
       /\ CleanType(verified_complex_fields[1].type) \in Registered
    THEN AttachSub(verified_complex_fields[1].name,
                   build_ultra_safe_object_query(
                       CleanType(verified_complex_fields[1].type), depth + 2))
    ELSE <<>>

\* lines 2429-2443: the first priority complex field, if of a safe type
SafeComplexLine(node_type, depth, priority_complex) ==
    IF /\ priority_complex # <<>>
       /\ verify_field_exists_in_type(priority_complex[1].name, node_type)
       /\ ~HasConnection(CleanType(priority_complex[1].type))
       /\ CleanType(priority_complex[1].type) \in Registered
       /\ CleanType(priority_complex[1].type)
             \in {"Markdown", "Text", "Date", "MonthDay", "Year"}
    THEN AttachSub(priority_complex[1].name,
                   build_ultra_safe_object_query(
                       CleanType(priority_complex[1].type), depth + 2))
    ELSE <<>>

\* lines 2425-2427
SafeComplexLines(node_type, depth, limit_fields, fields_added, max_node_fields, verified_complex_fields) ==
    IF fields_added < max_node_fields /\ verified_complex_fields # <<>> /\ ~limit_fields
    THEN SafeComplexLine(node_type, depth,
             prioritize_complex_fields(verified_complex_fields, node_type).priority)
    ELSE <<>>

\* lines 2396-2470, given the scalars the loop of line 2401 adds
NodeQuery(node_type, depth, limit_fields, max_node_fields, scalars, verified_complex_fields) ==
    ConnectionScaffold(Block(
        IdLines(FieldsOf(node_type))
        \o NameLines(scalars)
        \o FallbackComplexLines(node_type, depth, Len(scalars), verified_complex_fields)
        \o SafeComplexLines(node_type, depth, limit_fields, Len(scalars),
                            max_node_fields, verified_complex_fields)))

\* lines 2376-2398, given the fields without required arguments
NodeSelection(node_type, depth, limit_fields, max_node_fields, verified_node_fields) ==
    NodeQuery(node_type, depth, limit_fields, max_node_fields,
        Take(prioritize_scalar_fields(
                 SelectSeq(verified_node_fields, LAMBDA f :
                     /\ verify_field_exists_in_type(f.name, node_type)
                     /\ is_scalar_type_validated(f.type, f.name, node_type))).priority,
             max_node_fields),
        SelectSeq(verified_node_fields, LAMBDA f :
            /\ verify_field_exists_in_type(f.name, node_type)
            /\ ~is_scalar_type_validated(f.type, f.name, node_type)))

\* lines 2332-2372, given the node type ("" for None)
ConnectionForNode(clean_type, node_type, depth, visited_types, limit_fields) ==
    IF node_type = "" \/ node_type \notin Registered
    THEN build_generic_connection_query(clean_type, depth, visited_types)
    ELSE IF FieldsOf(node_type) = <<>>
    THEN build_simple_connection_with_id_only(depth)
    ELSE NodeSelection(node_type, depth, limit_fields, IF limit_fields THEN 2 ELSE 3,
             SelectSeq(FieldsOf(node_type), LAMBDA f :
                 f.name # "id" /\ RequiredArgs(f) = <<>>))

\* lines 2320-2329, given the cleaned type name
ConnectionForClean(clean_type, depth, visited_types, limit_fields) ==
    IF clean_type \notin Registered
    THEN build_generic_connection_query(clean_type, depth, visited_types)
    ELSE ConnectionForNode(clean_type, determine_node_type_from_connection(<<clean_type>>),
                           depth, visited_types, limit_fields)

build_validated_connection_query(connection_type, depth, visited_types, limit_fields) ==
    ConnectionForClean(CleanType(connection_type), depth, visited_types, limit_fields)

\* a mutation of InnerContent: the closing brace is kept
InnerContent_KeepsClose(node_body) == Tail(Strip(node_body))

\* lines 2705-2707: the node body without its braces ("" unless it is braced)
InnerContent(node_body) ==
    LET inner_content == Strip(node_body)
    IN  IF inner_content # <<>> /\ Head(inner_content) = "{"
           /\ inner_content[Len(inner_content)] = "}"
        THEN Strip(SubSeq(inner_content, 2, Len(inner_content) - 1))
        ELSE <<>>

\* a mutation of InVisited: no type counts as visited
InVisited_Never(clean_type, visited_types) == FALSE

\* line 1914: the cycle test
InVisited(clean_type, visited_types) == clean_type \in visited_types

RECURSIVE build_query_body(_, _, _, _)
RECURSIVE build_validated_sub_query_improved(_, _, _, _)
RECURSIVE build_validated_edge_query(_, _, _)
RECURSIVE PriorityComplexLoop(_, _, _, _, _, _, _)
RECURSIVE RegularComplexLoop(_, _, _, _, _, _, _, _)

\* a mutation of FieldBudget: the caller's max_fields is ignored
FieldBudget_DefaultOnly(clean_type, depth, max_fields) ==
    IF clean_type \in {"Title", "Name"}
    THEN Max(20 - depth * 4, 8) ELSE Max(15 - depth * 3, 6)

\* lines 1994-1998: the budget when max_fields is None (<<>>), else the one given
FieldBudget(clean_type, depth, max_fields) ==
    IF max_fields = <<>>
    THEN IF clean_type \in {"Title", "Name"}
         THEN Max(20 - depth * 4, 8) ELSE Max(15 - depth * 3, 6)
    ELSE max_fields[1]

\* how many of n fields a scalar loop adds: it stops once fields_added >= limit
ScalarRoom(fields_added, limit, n) ==
    IF limit - fields_added <= 0 THEN 0
    ELSE IF limit - fields_added < n THEN limit - fields_added ELSE n

\* a mutation of VisitedAfterCall: the callee adds its type to the caller's set
VisitedAfterCall_Shared(visited_types, field) ==
    visited_types \cup {CleanType(field.type)}

\* lines 1917-1918: the callee adds its type to a copy, so the set the caller
\* holds after the call for a field is the set it passed
VisitedAfterCall(visited_types, field) == visited_types

\* lines 2023-2025: the outcome of one priority field joined to that of the rest
PriorityJoin(name, sub_query, rest) ==
    [lines |-> (IF sub_query # <<>> THEN << <<name>> \o sub_query >> ELSE <<>>)
               \o rest.lines,
     fields_added |-> rest.fields_added,
     assigned |-> rest.assigned]

\* lines 2019-2025, given the sub-query of field i
PriorityComplexStep(fields, i, fields_added, max_fields, depth, visited_types, clean_type, sub_query) ==
    PriorityJoin(fields[i].name, sub_query,
        PriorityComplexLoop(fields, i + 1,
            IF sub_query # <<>> THEN fields_added + 1 ELSE fields_added,
            max_fields, depth, VisitedAfterCall(visited_types, fields[i]), clean_type))

\* lines 2015-2025, from field i on: the lines added, the count, and the index
\* of the last field whose type was assigned to field_type (line 2020)
PriorityComplexLoop(fields, i, fields_added, max_fields, depth, visited_types, clean_type) ==
    IF i > Len(fields) \/ fields_added >= max_fields
    THEN [lines |-> <<>>, fields_added |-> fields_added, assigned |-> i - 1]
    ELSE PriorityComplexStep(fields, i, fields_added, max_fields, depth, visited_types,
             clean_type,
             build_validated_sub_query_improved(fields[i], depth, visited_types,
                                                clean_type))

\* lines 2035-2040: field_type is the value left by the earlier loops, not the
\* type of the field at hand
RegularLine(name, sub_query, field_type) ==
    IF sub_query = <<>> THEN <<>>
    ELSE IF HasConnection(CleanType(field_type)) /\ Head(Strip(sub_query)) # "(first: 10)"
    THEN << <<name, "(first: 10)">> \o sub_query >>
    ELSE << <<name>> \o sub_query >>

\* lines 2033-2041, given the sub-query of field i
RegularComplexStep(fields, i, fields_added, max_fields, depth, visited_types, clean_type, field_type, sub_query) ==
    RegularLine(fields[i].name, sub_query, field_type)
    \o RegularComplexLoop(fields, i + 1,
           IF sub_query # <<>> THEN fields_added + 1 ELSE fields_added,
           max_fields, depth, VisitedAfterCall(visited_types, fields[i]), clean_type,
           field_type)

\* lines 2029-2041, from field i on
RegularComplexLoop(fields, i, fields_added, max_fields, depth, visited_types, clean_type, field_type) ==
    IF i > Len(fields) \/ fields_added >= max_fields THEN <<>>
    ELSE RegularComplexStep(fields, i, fields_added, max_fields, depth, visited_types,
             clean_type, field_type,
             build_validated_sub_query_improved(fields[i], depth, visited_types,
                                                clean_type))

\* the value of field_type when line 2036 reads it: assigned last at line 2020,
\* or else at line 1979 by the last queryable field
StaleFieldType(assigned, priority_complex, queryable_fields) ==
    IF assigned > 0 THEN priority_complex[assigned].type
    ELSE IF queryable_fields # <<>> THEN queryable_fields[Len(queryable_fields)].type
    ELSE <<>>

\* lines 2027-2048, given the scalar lines and the outcome of the priority loop
AddRegularComplex(clean_type, depth, visited_types, max_fields, queryable_fields, complex, scalar_lines, priority) ==
    BodyOf(scalar_lines \o priority.lines
           \o (IF depth < 3 /\ clean_type \in {"Title", "Name"}
               THEN RegularComplexLoop(Take(complex.regular, 2), 1, priority.fields_added,
                        max_fields, depth, visited_types, clean_type,
                        StaleFieldType(priority.assigned, complex.priority,
                                       queryable_fields))
               ELSE <<>>))

\* lines 2014-2025, given how many scalars of each rank the loops add
AddPriorityComplex(clean_type, depth, visited_types, max_fields, queryable_fields, scalars, complex, id_lines, n1, n2) ==
    AddRegularComplex(clean_type, depth, visited_types, max_fields, queryable_fields,
        complex,
        id_lines \o NameLines(Take(scalars.priority, n1))
                 \o NameLines(Take(scalars.regular, n2)),
        PriorityComplexLoop(complex.priority, 1, Len(id_lines) + n1 + n2, max_fields,
                            depth, visited_types, clean_type))

\* lines 2000-2012, given the first loop's count
AddRegularScalars(clean_type, depth, visited_types, max_fields, queryable_fields, scalars, complex, id_lines, n1) ==
    AddPriorityComplex(clean_type, depth, visited_types, max_fields, queryable_fields,
        scalars, complex, id_lines, n1,
        ScalarRoom(Len(id_lines) + n1, max_fields - 2, Len(scalars.regular)))

\* lines 1989-2006, given the ranked fields and the budget
AddScalars(clean_type, depth, visited_types, max_fields, queryable_fields, scalars, complex, id_lines) ==
    AddRegularScalars(clean_type, depth, visited_types, max_fields, queryable_fields,
        scalars, complex, id_lines,
        ScalarRoom(Len(id_lines), max_fields - 3, Len(scalars.priority)))

\* lines 1974-1998, given the fields without required arguments
SelectFields(clean_type, depth, visited_types, max_fields, queryable_fields) ==
    AddScalars(clean_type, depth, visited_types,
        FieldBudget(clean_type, depth, max_fields), queryable_fields,
        prioritize_scalar_fields(SelectSeq(queryable_fields, LAMBDA f :
            /\ verify_field_exists_in_type(f.name, clean_type)
            /\ is_scalar_type_validated(f.type, f.name, clean_type))),
        prioritize_complex_fields(SelectSeq(queryable_fields, LAMBDA f :
            /\ verify_field_exists_in_type(f.name, clean_type)
            /\ ~is_scalar_type_validated(f.type, f.name, clean_type)), clean_type),
        IdLines(FieldsOf(clean_type)))

\* lines 1913-1972, given the cleaned type name
BodyForType(clean_type, depth, visited_types, max_fields) ==
    IF InVisited(clean_type, visited_types) THEN IdOnly
    ELSE IF HasConnection(clean_type)
    THEN build_validated_connection_query(<<clean_type>>, depth,
                                          visited_types \cup {clean_type}, FALSE)
    ELSE IF HasEdge(clean_type)
    THEN build_validated_edge_query(<<clean_type>>, depth, visited_types \cup {clean_type})
    ELSE IF clean_type \notin Registered THEN IdOnly
    ELSE IF Registry[clean_type].kind \in {"ENUM", "SCALAR"} THEN <<>>
    ELSE IF Registry[clean_type].kind \notin {"OBJECT", "INTERFACE", "UNION",
                                              "INPUT_OBJECT"} THEN IdOnly
    ELSE SelectFields(clean_type, depth, visited_types \cup {clean_type}, max_fields,
             SelectSeq(FieldsOf(clean_type), LAMBDA f :
                 f.name # "id" /\ RequiredArgs(f) = <<>>))

\* max_fields is <<>> for None and <<k>> for k
build_query_body(return_type, depth, visited_types, max_fields) ==
    IF depth > 3 THEN IdOnly
    ELSE BodyForType(CleanType(return_type), depth, visited_types, max_fields)

\* lines 2232-2235: "" (None) for a sub-query that is empty or "{ id }"
UsefulSubQuery(sub_query) ==
    IF sub_query # <<>> /\ Strip(sub_query) # <<>> /\ sub_query # IdOnly
    THEN sub_query ELSE <<>>

\* returns "" (<<>>) for None
build_validated_sub_query_improved(field, depth, visited_types, parent_type) ==
    IF ~is_field_queryable(field, parent_type) THEN <<>>
    ELSE IF HasConnection(CleanType(field.type))
    THEN <<"(first: 10)">>
         \o build_validated_connection_query(field.type, depth + 1, visited_types, TRUE)
    ELSE IF HasEdge(CleanType(field.type))
    THEN build_validated_edge_query(field.type, depth + 1, visited_types)
    ELSE IF CleanType(field.type) \notin Registered THEN IdOnly
    ELSE UsefulSubQuery(build_query_body(field.type, depth + 1, visited_types,
                                         <<IF depth < 2 THEN 6 ELSE 3>>))

\* lines 2703-2709: what of the node body is spliced in
SplicedContent(node_body) ==
    IF node_body # <<>> /\ node_body # IdOnly THEN InnerContent(node_body) ELSE <<>>

\* lines 2697-2716, given the content spliced in
EdgeQuery(inner_content) ==
    <<"{", "NL", "node", "{", "NL", "id">>
    \o (IF inner_content # <<>> THEN <<"NL">> \o inner_content ELSE <<>>)
    \o <<"NL", "}", "NL", "cursor", "NL", "}">>

\* lines 2695-2702, given the node type
EdgeForNode(node_type, depth, visited_types) ==
    IF Len(node_type) = 1 /\ node_type[1] \in Registered
    THEN EdgeQuery(SplicedContent(build_query_body(node_type, depth + 2, visited_types,
                                                   <<>>)))
    ELSE EdgeQuery(<<>>)

build_validated_edge_query(edge_type, depth, visited_types) ==
    EdgeForNode(WithoutEdge(edge_type), depth, visited_types)

validate_fields_against_schema(fields, type_name) ==
    IF type_name \notin Registered THEN fields
    ELSE LET actual_fields == FieldsOf(type_name)
             kept == SelectSeq(fields, LAMBDA f :
                        /\ HasFieldNamed(actual_fields, f.name)
                        /\ RequiredArgs(FieldNamed(actual_fields, f.name)) = <<>>)
         IN  [i \in 1..Len(kept) |-> FieldNamed(actual_fields, kept[i].name)]

get_valid_scalar_fields(fields, type_name) ==
    IF type_name \in Registered
    THEN LET actual_fields == FieldsOf(type_name)
             kept == SelectSeq(fields, LAMBDA f :
                        /\ HasFieldNamed(actual_fields, f.name)
                        /\ is_scalar_type_validated(FieldNamed(actual_fields, f.name).type,
                                                    f.name, type_name))
         IN  [i \in 1..Len(kept) |-> FieldNamed(actual_fields, kept[i].name)]
    ELSE SelectSeq(fields, LAMBDA f : is_scalar_type_validated(f.type, f.name, type_name))

\* lines 2159-2163: a complex type that can be queried
ComplexTypeUsable(field_type, visited_types) ==
    LET clean_field_type == CleanType(field_type)
    IN  /\ clean_field_type \notin visited_types
        /\ \/ clean_field_type \in Registered
           \/ HasConnection(clean_field_type)
           \/ HasEdge(clean_field_type)

get_valid_complex_fields(fields, type_name, visited_types) ==
    IF type_name \in Registered
    THEN LET actual_fields == FieldsOf(type_name)
             kept == SelectSeq(fields, LAMBDA f :
                        /\ HasFieldNamed(actual_fields, f.name)
                        /\ ~is_scalar_type_validated(FieldNamed(actual_fields, f.name).type,
                                                     f.name, type_name)
                        /\ ComplexTypeUsable(FieldNamed(actual_fields, f.name).type,
                                             visited_types))
         IN  [i \in 1..Len(kept) |-> FieldNamed(actual_fields, kept[i].name)]
    ELSE SelectSeq(fields, LAMBDA f :
             /\ ~is_scalar_type_validated(f.type, f.name, type_name)
             /\ ComplexTypeUsable(f.type, visited_types))

HasArgNamed(f, n) == \E j \in 1..Len(f.args) : f.args[j].name = n

\* returns "" for None
find_query_field_for_type(type_name) ==
    IF "Query" \notin Registered THEN ""
    ELSE LET query_fields == FieldsOf("Query")
             returning == SelectSeq(query_fields, LAMBDA f :
                              CleanType(f.type) = type_name /\ HasArgNamed(f, "id"))
             similar == SelectSeq(query_fields, LAMBDA f :
                              LowerNameMatches(f.name, type_name) /\ HasArgNamed(f, "id"))
         IN  IF returning # <<>> THEN returning[1].name
             ELSE IF similar # <<>> THEN similar[1].name
             ELSE ""

\* lines 734-739 and 1878-1880: the root field of a document
RootField(type_name) ==
    IF find_query_field_for_type(type_name) # ""
    THEN find_query_field_for_type(type_name) ELSE LowerName(type_name)

\* lines 725-728: the sub-selection is attached unless empty or "{ id }"
AttachOrBare(name, sub_body) ==
    IF sub_body # <<>> /\ sub_body # IdOnly THEN <<name>> \o sub_body ELSE <<name>>

\* lines 710-728: the line of one selected field
ExampleFieldLine(field, type_name) ==
    IF HasConnection(CleanType(field.type))
    THEN <<field.name>> \o build_validated_connection_query(field.type, 1, {type_name}, TRUE)
    ELSE IF is_scalar_type_validated(field.type, field.name, type_name)
    THEN <<field.name>>
    ELSE AttachOrBare(field.name, build_query_body(field.type, 1, {type_name}, <<5>>))

Min(a, b) == IF a < b THEN a ELSE b

\* lines 707-745, given the fields selected
ExampleDocument(type_name, selected_fields) ==
    JoinNL(<< <<"query", "Get", type_name, "{">>,
              <<RootField(type_name), "(id: $entity_id)", "{">> >>
           \o [i \in 1..Len(selected_fields) |->
                  ExampleFieldLine(selected_fields[i], type_name)]
           \o << <<"}">>, <<"}">> >>)

\* lines 703-705, given the scalars selected
ExampleAddComplex(type_name, max_fields, priority_complex, selected_fields) ==
    ExampleDocument(type_name,
        selected_fields
        \o (IF Len(selected_fields) < max_fields /\ priority_complex # <<>>
            THEN <<priority_complex[1]>> ELSE <<>>))

\* lines 697-701, given id and the priority scalars selected
ExampleAddRegular(type_name, max_fields, regular_scalars, priority_complex, selected_fields) ==
    ExampleAddComplex(type_name, max_fields, priority_complex,
        selected_fields
        \o (IF max_fields - Len(selected_fields) > 1 /\ regular_scalars # <<>>
            THEN Take(regular_scalars,
                      Min(max_fields - Len(selected_fields) - 1, Len(regular_scalars)))
            ELSE <<>>))

\* lines 691-695, given the ranked fields
ExampleAddPriority(type_name, max_fields, scalars, complex, id_fields) ==
    ExampleAddRegular(type_name, max_fields, scalars.regular, complex.priority,
        id_fields
        \o (IF Min(max_fields - Len(id_fields) - 1, Len(scalars.priority)) > 0
            THEN Take(scalars.priority,
                      Min(max_fields - Len(id_fields) - 1, Len(scalars.priority)))
            ELSE <<>>))

\* lines 678-689, given the scalar and complex fields that are valid
ExampleSelect(type_name, max_fields, simple_fields, complex_fields) ==
    ExampleAddPriority(type_name, max_fields,
        prioritize_scalar_fields(SelectSeq(simple_fields, LAMBDA f : f.name # "id")),
        prioritize_complex_fields(complex_fields, type_name),
        IF HasFieldNamed(simple_fields, "id")
        THEN <<FieldNamed(simple_fields, "id")>> ELSE <<>>)

\* lines 671-676, given the fields that are valid
ExampleFromValid(type_name, max_fields, valid_fields) ==
    ExampleSelect(type_name, max_fields,
        get_valid_scalar_fields(valid_fields, type_name),
        get_valid_complex_fields(valid_fields, type_name, {type_name}))

\* the text returned when the result is not None (DocumentIsNone)
generate_example_query_for_type(type_name, max_fields) ==
    ExampleFromValid(type_name, max_fields,
        validate_fields_against_schema(FieldsOf(type_name), type_name))

\* lines 660-669 and 1771-1780
DocumentIsNone(type_name) ==
    type_name \notin Registered \/ FieldsOf(type_name) = <<>>

build_comprehensive_connection_query(connection_type, parent_type) ==
    build_validated_connection_query(<<CleanType(connection_type)>>, 1, {parent_type}, TRUE)

\* lines 1846-1849
ConnectionLine(name, connection_body) ==
    IF connection_body # <<>>
    THEN << <<name, "(first: 10)">> \o connection_body >> ELSE <<>>

\* lines 1835-1854: the lines of one priority complex field
ComprehensivePriorityLine(field, type_name, include_connections, depth) ==
    IF ~verify_field_exists_in_type(field.name, type_name) THEN <<>>
    ELSE IF HasConnection(CleanType(field.type)) /\ include_connections
    THEN ConnectionLine(field.name,
                        build_comprehensive_connection_query(field.type, type_name))
    ELSE AttachSub(field.name, build_query_body(field.type, depth + 1, {type_name}, <<6>>))

\* lines 1860-1872: the lines of one regular complex field
ComprehensiveRegularLine(field, type_name, depth) ==
    IF ~verify_field_exists_in_type(field.name, type_name) THEN <<>>
    ELSE IF HasConnection(CleanType(field.type)) THEN <<>>
    ELSE AttachSub(field.name, build_query_body(field.type, depth + 1, {type_name}, <<4>>))

RECURSIVE Flatten(_)
Flatten(ss) == IF ss = <<>> THEN <<>> ELSE Head(ss) \o Flatten(Tail(ss))

\* lines 1815-1887, given the ranked complex fields
ComprehensiveDocument(type_name, include_connections, depth, verified_scalar_fields, complex) ==
    <<"query", "GetComprehensive", type_name, "{", "NL",
      RootField(type_name), "(id: $entity_id)", "{", "NL">>
    \o JoinNL(IdLines(verified_scalar_fields)
           \o NameLines(SelectSeq(verified_scalar_fields, LAMBDA f : f.name # "id"))
           \o Flatten([i \in 1..Len(Take(complex.priority, 8)) |->
                  ComprehensivePriorityLine(complex.priority[i], type_name,
                                            include_connections, depth)])
           \o Flatten([i \in 1..Len(Take(complex.regular, 3)) |->
                  ComprehensiveRegularLine(complex.regular[i], type_name, depth)]))
    \o <<"NL", "}", "NL", "}">>

\* lines 1800-1831, given the fields without required arguments
ComprehensiveSelect(type_name, include_connections, depth, queryable_fields) ==
    ComprehensiveDocument(type_name, include_connections, depth,
        SelectSeq(queryable_fields, LAMBDA f :
            is_scalar_type_validated(f.type, f.name, type_name)),
        prioritize_complex_fields(
            SelectSeq(queryable_fields, LAMBDA f :
                ~is_scalar_type_validated(f.type, f.name, type_name)), type_name))

\* the text returned when the result is not None (DocumentIsNone)
generate_comprehensive_example_query(type_name, include_connections, depth) ==
    ComprehensiveSelect(type_name, include_connections, depth,
        SelectSeq(FieldsOf(type_name), LAMBDA f :
            RequiredArgs(f) = <<>> /\ verify_field_exists_in_type(f.name, type_name)))

\* ', '.join(items)
RECURSIVE JoinComma(_)
JoinComma(items) ==
    IF items = <<>> THEN <<>>
    ELSE IF Len(items) = 1 THEN items[1]
    ELSE items[1] \o <<",">> \o JoinComma(Tail(items))

\* lines 824-854: the arguments the generated operation passes; of the argument
\* names used none holds 'constraint' or 'sort'
OperationArgs(args) ==
    LET passed == SelectSeq(args, LAMBDA a : a.name \in {"first", "limit", "after", "before"})
        items == [i \in 1..Len(passed) |->
                    <<passed[i].name, ":",
                      IF passed[i].name \in {"first", "limit"} THEN "$first" ELSE "$after">>]
    IN  IF items = <<>> THEN <<>> ELSE <<"(">> \o JoinComma(items) \o <<")">>

\* lines 860-873: the variables the generated operation declares
OperationVarDefs(args) ==
    LET declared == SelectSeq(args, LAMBDA a : a.name \in {"first", "after"})
        items == [i \in 1..Len(declared) |->
                    <<IF declared[i].name = "first" THEN "$first" ELSE "$after", ":">>
                    \o declared[i].type]
    IN  IF items = <<>> THEN <<>> ELSE <<"(">> \o JoinComma(items) \o <<")">>

\* lines 788-804
OperationIsNone(operation_name) ==
    "Query" \notin Registered \/ ~HasFieldNamed(FieldsOf("Query"), operation_name)

\* lines 856-881, given the operation's field of Query; in the header the
\* operation's name stands for its capitalized form
OperationDocument(operation_name, operation_field) ==
    <<"query", operation_name, "Example">> \o OperationVarDefs(operation_field.args)
    \o <<"{", "NL", operation_name>> \o OperationArgs(operation_field.args)
    \o build_query_body(operation_field.type, 0, {}, <<>>) \o <<"NL", "}">>

\* the 'query' entry of the result when it is not None (OperationIsNone)
generate_example_query_for_operation(operation_name) ==
    OperationDocument(operation_name, FieldNamed(FieldsOf("Query"), operation_name))

(***************************************************************************)
(* Synthesis requests: the registry is a snapshot holding any subset of a  *)
(* schema's types, and one entry point is called on it.                    *)
(***************************************************************************)
MaxRequestDepth == 4

RequestNames == DOMAIN SchemaOf(schema) \cup {"Unknown", "String"}
\* the connection types of the synthesizer's schemas, registered or not
ConnectionNames == {"XConnection", "YConnection"}
EdgeNames == {n \in TypeNames : HasEdge(n)}
VisitedChoices == {{}} \cup {{n} : n \in DOMAIN SchemaOf(schema)}
BudgetChoices == {<<>>, <<3>>, <<6>>}
TypeRefsOf(n) == {<<n>>, <<n, "!">>, <<"[", n, "!", "]", "!">>}
OperationNames ==
    {"nosuch"} \cup
    (IF "Query" \in DOMAIN SchemaOf(schema)
     THEN {SchemaOf(schema)["Query"].fields[i].name :
              i \in 1..Len(SchemaOf(schema)["Query"].fields)}
     ELSE {})

Request(fn, name, type, depth, visited, max_fields, flag) ==
    [fn |-> fn, name |-> name, type |-> type, depth |-> depth, visited |-> visited,
     max_fields |-> max_fields, flag |-> flag]

Returned(text) == [returned |-> TRUE, none |-> FALSE, text |-> text]
ReturnedNone == [returned |-> TRUE, none |-> TRUE, text |-> <<>>]

SynthInit ==
    /\ schema \in SynthSchemaIds
    /\ mainpc = "loaded"
    /\ \E keys \in SUBSET DOMAIN SchemaOf(schema) :
          /\ introspected_types = keys
          /\ detailed_introspection_data = SnapshotOf(schema, keys)
    /\ stack = <<>>
    /\ requests = [n \in TypeNames |-> 0]
    /\ fetchDepth = [n \in TypeNames |-> 0]
    /\ request = NoRequest
    /\ result = NoResult

\* a mutation of CallBuildQueryBody: the call makes the requested type known
CallBuildQueryBody_MarksKnown ==
    /\ request = NoRequest
    /\ \E n \in RequestNames, d \in 0..MaxRequestDepth, v \in VisitedChoices,
          m \in BudgetChoices :
          \E t \in TypeRefsOf(n) :
             /\ request' = Request("build_query_body", n, t, d, v, m, FALSE)
             /\ result' = Returned(build_query_body(t, d, v, m))
             /\ introspected_types' = introspected_types \cup {n}
    /\ UNCHANGED <<schema, mainpc, detailed_introspection_data, stack, requests, fetchDepth>>

CallBuildQueryBody ==
    /\ request = NoRequest
    /\ \E n \in RequestNames, d \in 0..MaxRequestDepth, v \in VisitedChoices,
          m \in BudgetChoices :
          \E t \in TypeRefsOf(n) :
             /\ request' = Request("build_query_body", n, t, d, v, m, FALSE)
             /\ result' = Returned(build_query_body(t, d, v, m))
    /\ UNCHANGED <<schema, crawlVars>>

CallConnectionQuery ==
    /\ request = NoRequest
    /\ \E n \in ConnectionNames, d \in 0..MaxRequestDepth, v \in VisitedChoices,
          limit_fields \in BOOLEAN :
          \E t \in TypeRefsOf(n) :
             /\ request' = Request("build_validated_connection_query", n, t, d, v,
                                   <<>>, limit_fields)
             /\ result' = Returned(build_validated_connection_query(t, d, v, limit_fields))
    /\ UNCHANGED <<schema, crawlVars>>

CallEdgeQuery ==
    /\ request = NoRequest
    /\ \E n \in EdgeNames, d \in 0..MaxRequestDepth, v \in VisitedChoices :
          \E t \in TypeRefsOf(n) :
             /\ request' = Request("build_validated_edge_query", n, t, d, v, <<>>, FALSE)
             /\ result' = Returned(build_validated_edge_query(t, d, v))
    /\ UNCHANGED <<schema, crawlVars>>

\* the field names verify_field_exists_in_type is asked about for a type
VerifyFieldNames(n) ==
    {"id", "nosuch"} \cup
    (IF n \in DOMAIN SchemaOf(schema)
     THEN {SchemaOf(schema)[n].fields[i].name : i \in 1..Len(SchemaOf(schema)[n].fields)}
     ELSE {})

\* str() of the boolean a call returns
BoolText(b) == IF b THEN <<"True">> ELSE <<"False">>

CallVerifyField ==
    /\ request = NoRequest
    /\ \E n \in RequestNames :
          \E f \in VerifyFieldNames(n) :
             /\ request' = Request("verify_field_exists_in_type", f, <<n>>, 0, {}, <<>>,
                                   FALSE)
             /\ result' = Returned(BoolText(verify_field_exists_in_type(f, n)))
    /\ UNCHANGED <<schema, crawlVars>>

CallExampleForType ==
    /\ request = NoRequest
    /\ \E n \in RequestNames, m \in {2, 5} :
          /\ request' = Request("generate_example_query_for_type", n, <<n>>, 0, {},
                                <<m>>, FALSE)
          /\ result' = IF DocumentIsNone(n) THEN ReturnedNone
                       ELSE Returned(generate_example_query_for_type(n, m))
    /\ UNCHANGED <<schema, crawlVars>>

CallComprehensiveExample ==
    /\ request = NoRequest
    /\ \E n \in RequestNames, include_connections \in BOOLEAN :
          /\ request' = Request("generate_comprehensive_example_query", n, <<n>>, 0, {},
                                <<>>, include_connections)
          /\ result' = IF DocumentIsNone(n) THEN ReturnedNone
                       ELSE Returned(generate_comprehensive_example_query(
                                         n, include_connections, 0))
    /\ UNCHANGED <<schema, crawlVars>>

CallExampleForOperation ==
    /\ request = NoRequest
    /\ \E op \in OperationNames :
          /\ request' = Request("generate_example_query_for_operation", op, <<>>, 0, {},
                                <<>>, FALSE)
          /\ result' = IF OperationIsNone(op) THEN ReturnedNone
                       ELSE Returned(generate_example_query_for_operation(op))
    /\ UNCHANGED <<schema, crawlVars>>

SynthNext ==
    \/ CallBuildQueryBody
    \/ CallConnectionQuery
    \/ CallEdgeQuery
    \/ CallVerifyField
    \/ CallExampleForType
    \/ CallComprehensiveExample
    \/ CallExampleForOperation

SynthSpec == SynthInit /\ [][SynthNext]_vars

(***************************************************************************)
(* Properties of the synthesizer                                           *)
(***************************************************************************)
Count(tokens, x) == Cardinality({i \in 1..Len(tokens) : tokens[i] = x})
Contains(tokens, sub) ==
    \E i \in 0..(Len(tokens) - Len(sub)) : SubSeq(tokens, i + 1, i + Len(sub)) = sub
Occurs(tokens, x) == \E i \in 1..Len(tokens) : tokens[i] = x
FollowedByBrace(tokens, x) ==
    \E i \in 1..(Len(tokens) - 1) : tokens[i] = x /\ tokens[i + 1] = "{"

\* a body builder was called, from the top, and has returned
TopLevelBodyOf(n) ==
    /\ request.fn = "build_query_body" /\ request.name = n
    /\ request.depth = 0 /\ request.visited = {} /\ request.max_fields = <<>>
    /\ result.returned

\* the type the field f of type T selects from ("" if T has no such field)
TypeUnder(T, f) ==
    IF verify_field_exists_in_type(f, T) THEN CleanType(FieldNamed(FieldsOf(T), f).type)
    ELSE ""

CtxTop(ctx) == IF ctx = <<>> THEN "" ELSE ctx[Len(ctx)]

\* the pairs <<T, f>> of a text: field f is selected under a selection for T
RECURSIVE Emitted(_, _, _, _)
Emitted(tokens, i, ctx, pending) ==
    IF i > Len(tokens) THEN {}
    ELSE IF tokens[i] = "{" THEN Emitted(tokens, i + 1, ctx \o <<pending>>, "")
    ELSE IF tokens[i] = "}" THEN Emitted(tokens, i + 1, SubSeq(ctx, 1, Len(ctx) - 1), "")
    ELSE IF tokens[i] \in {"NL", "(first: 10)"} THEN Emitted(tokens, i + 1, ctx, pending)
    ELSE {<<CtxTop(ctx), tokens[i]>>}
         \cup Emitted(tokens, i + 1, ctx, TypeUnder(CtxTop(ctx), tokens[i]))

\* a body, connection or edge builder has returned a selection for its type
BodyReturned ==
    /\ request.fn \in {"build_query_body", "build_validated_connection_query",
                       "build_validated_edge_query"}
    /\ result.returned

EmittedByRequest == Emitted(result.text, 1, <<>>, CleanType(request.type))

SelfRefCase ==
    /\ schema = "selfref" /\ "A" \in Registered
    /\ request.fn = "build_query_body" /\ request.name = "A"
    /\ request.depth = 0 /\ request.visited = {}
    /\ result.returned

C6_BracesBalanced ==
    (result.returned /\ ~result.none)
    => Count(result.text, "{") = Count(result.text, "}")

\* an edge body into which the fields of the node type were spliced
C6_Witness ==
    /\ schema = "scenarioB" /\ request.fn = "build_validated_edge_query"
    /\ result.returned /\ Occurs(result.text, "name")
    /\ Count(result.text, "{") = 2

\* C7 as stated: every field name emitted under a selection for a type T is a
\* field of T in the registry, the id of a fallback and the scaffold names
\* included.
C7_EmittedFieldsExist ==
    BodyReturned =>
        \A p \in EmittedByRequest : verify_field_exists_in_type(p[2], p[1])

\* C8 as stated: no field with an argument whose type ends in ! is selected
\* in a nested selection, a field named id included.
C8_NoRequiredArgField ==
    BodyReturned =>
        \A p \in EmittedByRequest :
            verify_field_exists_in_type(p[2], p[1])
            => RequiredArgs(FieldNamed(FieldsOf(p[1]), p[2])) = <<>>

ScenarioACase ==
    /\ schema \in {"scenarioA", "scenarioA2"}
    /\ {"Query", "Title"} \subseteq Registered
    /\ request.name = "Title"
    /\ result.returned

TitleTextSelectable == schema = "scenarioA" /\ "TitleText" \in Registered
TextSelection == <<"titleText", "{", "NL", "text", "NL", "}">>

ScenarioBCase ==
    /\ schema = "scenarioB"
    /\ {"XConnection", "XEdge", "X"} \subseteq Registered
    /\ request.type = <<"XConnection", "!">>
    /\ \/ request.fn = "build_validated_connection_query"
       \/ /\ request.fn = "build_query_body"
          /\ request.depth <= 3 /\ "XConnection" \notin request.visited
    /\ result.returned

\* C10: for XConnection!, with XConnection, XEdge and X registered, the text
\* is exactly edges { node <body> cursor }, pageInfo { hasNextPage
\* hasPreviousPage startCursor endCursor }, total, in this order, the body
\* holding id and then the priority scalar fields of X in the registry, name
\* and rank.
C10_ConnectionScaffold ==
    ScenarioBCase =>
        /\ result.text =
              <<"{", "NL", "edges", "{", "NL",
                "node", "{", "NL", "id", "NL", "name", "NL", "rank", "NL", "}", "NL",
                "cursor", "NL", "}", "NL",
                "pageInfo", "{", "NL", "hasNextPage", "NL", "hasPreviousPage", "NL",
                "startCursor", "NL", "endCursor", "NL", "}", "NL", "total", "NL", "}">>
        /\ \A p \in EmittedByRequest : p[1] = "X" => verify_field_exists_in_type(p[2], "X")

C10_Witness ==
    /\ ScenarioBCase /\ request.fn = "build_query_body" /\ request.depth = 0
    /\ \E p \in EmittedByRequest : p[1] = "X" /\ p[2] = "rank"

(***************************************************************************)
(* Fallback and leaf results of build_query_body                           *)
(***************************************************************************)
\* a call of build_query_body has returned
BodyCallReturned == request.fn = "build_query_body" /\ result.returned

\* the bare name of the requested type is a built-in scalar or a registered
\* type of kind SCALAR or ENUM
RequestedLeaf ==
    \/ IsBuiltinScalar(CleanType(request.type))
    \/ /\ CleanType(request.type) \in Registered
       /\ Registry[CleanType(request.type)].kind \in {"SCALAR", "ENUM"}

\* the depth bound is exceeded, the bare name is visited or it is not registered
RequestedFallback ==
    \/ request.depth > 3
    \/ CleanType(request.type) \in request.visited
    \/ CleanType(request.type) \notin Registered

\* C13: build_query_body always returns a text; for a built-in scalar or a
\* registered SCALAR or ENUM type the text is empty at every depth, and for
\* any other type beyond the depth bound, already visited or missing from
\* the registry it is exactly { id }.
C13_FallbackAndLeafResults ==
    BodyCallReturned =>
        /\ ~result.none
        /\ RequestedLeaf => result.text = <<>>
        /\ (~RequestedLeaf /\ RequestedFallback) => result.text = IdOnly

(***************************************************************************)
(* Built-in and meta names                                                 *)
(***************************************************************************)
\* the five built-in scalars and the names of the model prefixed with __
BuiltinNames == {"String", "Int", "Float", "Boolean", "ID", "__Type"}

\* the loop of the active call is about to call fetch_introspection_data for a
\* built-in or meta name
BuiltinChildStep ==
    /\ stack # <<>> /\ Top.phase \in {"constraints", "related"} /\ Top.todo # <<>>
    /\ Head(Top.todo) \in BuiltinNames

\* C14: no request is issued for String, Int, Float, Boolean, ID or a name
\* prefixed with __, and a crawl adds no such name to the known set or to the
\* registry; a call made for such a name changes none of the three.
C14_NoBuiltinRequested ==
    /\ [](\A n \in BuiltinNames :
                /\ requests[n] = 0
                /\ n \notin introspected_types
                /\ n \notin Registered)
    /\ [][BuiltinChildStep =>
              /\ UNCHANGED <<introspected_types, detailed_introspection_data, requests>>
              /\ stack' = Below \o <<Frame(Top.name, Top.depth, Top.phase, Tail(Top.todo))>>]_vars

\* Query of the wide schema refers to __Type through its field meta, and its
\* loop has passed that name
C14_Witness ==
    /\ schema = "wide" /\ CallReturned("Query")
    /\ RefersTo("Query", "__Type")
    /\ ~AlreadyIntrospected(introspected_types, "__Type")

(***************************************************************************)
(* The order of the priority loop                                          *)
(***************************************************************************)
\* the names of a set in the four groups of the crawl policy
KeywordGroup(S) == {t \in S : HasConstraintKeyword(t)}
AllowListGroup(S) == {t \in S \ KeywordGroup(S) : t \in {"Name", "Title", "NameText", "TitleText"}}
ConnectionGroup(S) == {t \in S \ (KeywordGroup(S) \cup AllowListGroup(S)) : HasConnection(t)}
OtherGroup(S) == S \ (KeywordGroup(S) \cup AllowListGroup(S) \cup ConnectionGroup(S))

\* the order the policy gives the not-yet-known names of a set of references
PolicyOrder(refs, known) ==
    Sorted(KeywordGroup(refs \ known)) \o Sorted(AllowListGroup(refs \ known))
        \o Take(Sorted(ConnectionGroup(refs \ known)), 3)
        \o Take(Sorted(OtherGroup(refs \ known)), 2)

\* the active call has stored its entry and starts its priority loop
PriorityLoopStarts ==
    /\ stack # <<>> /\ Top.phase \in {"request", "constraints"}
    /\ Len(stack') = Len(stack) /\ stack'[Len(stack')].phase = "related"

\* a step of a crawl in which a caller's loop makes a name known
ChildBecomesKnown == stack # <<>> /\ introspected_types' # introspected_types

\* C15: a fetched type at depth < 5 starts its loop with the not-yet-known
\* names of its references in the order keyword names, allow-list names, the
\* first 3 Connection names, the first 2 other names (empty at depth 5); the
\* loop takes them from the front, one per step, a child being fetched at the
\* next depth, and no name that is not at the front of the loop is fetched
\* as a child.
C15_PriorityOrder ==
    /\ [][PriorityLoopStarts =>
              stack'[Len(stack')].todo =
                  IF Top.depth < 5
                  THEN PolicyOrder(SeqToSet(detailed_introspection_data'[Top.name]
                                                .all_related_types),
                                   introspected_types)
                  ELSE <<>>]_vars
    /\ [][ChildBecomesKnown =>
              /\ Top.phase \in {"constraints", "related"} /\ Top.todo # <<>>
              /\ introspected_types' = introspected_types \cup {Head(Top.todo)}
              /\ stack' = Below \o <<Frame(Top.name, Top.depth, Top.phase, Tail(Top.todo)),
                                      Frame(Head(Top.todo), Top.depth + 1, "request", <<>>)>>
              /\ Top.phase = "constraints" =>
                    Top.name = "Query" /\ HasConstraintKeyword(Head(Top.todo))]_vars

\* Hub of the wide schema starts its loop with four Connection names and
\* three other names among its references
C15_Witness ==
    /\ schema = "wide" /\ stack # <<>>
    /\ Top.name = "Hub" /\ Top.phase = "related"
    /\ Top.todo = <<"HubSort", "Title", "AConnection", "BConnection", "CConnection",
                    "Extra", "Genre">>
    /\ {"DConnection", "Mode"} \subseteq
          SeqToSet(Registry["Hub"].all_related_types) \ introspected_types

(***************************************************************************)
(* The visited set of sibling fields                                       *)
(***************************************************************************)
\* build_query_body was called for Film of the leafy schema, Film and Part
\* registered and neither visited, at a depth that leaves room for Part
SiblingCase ==
    /\ schema = "leafy" /\ {"Film", "Part"} \subseteq Registered
    /\ BodyCallReturned /\ CleanType(request.type) = "Film"
    /\ request.depth <= 2 /\ request.visited \cap {"Film", "Part"} = {}

\* the sub-selection of Part
PartBody == <<"{", "NL", "text", "NL", "}">>

\* C16: the callee works on a copy of the visited set, so Part, visited while
\* plotText is expanded, is not visited when the sibling taglineText of the
\* same type is expanded: both fields carry the body of Part, and neither is
\* cut to { id }.
C16_SiblingsDoNotShareVisited ==
    SiblingCase =>
        /\ Occurs(result.text, "plotText") =>
              Contains(result.text, <<"plotText">> \o PartBody)
        /\ Occurs(result.text, "taglineText") =>
              Contains(result.text, <<"taglineText">> \o PartBody)
        /\ ~Contains(result.text, <<"taglineText">> \o IdOnly)
        /\ (request.max_fields = <<>> /\ request.depth = 0) =>
              Contains(result.text, <<"plotText">> \o PartBody \o <<"NL", "taglineText">>
                                        \o PartBody)

C16_Witness ==
    /\ SiblingCase /\ request.depth = 0 /\ request.max_fields = <<>>
    /\ Contains(result.text, <<"plotText">> \o PartBody)
    /\ Contains(result.text, <<"taglineText">> \o PartBody)

(***************************************************************************)
(* Synthesis reads the registry                                            *)
(***************************************************************************)
\* a synthesis operation is called and returns
SynthesisStep == request = NoRequest /\ request' # NoRequest

\* C17: a call of build_query_body, of the connection or edge builder, of
\* verify_field_exists_in_type or of a generate_example_query entry point
\* leaves the registry and the known set as they were, whatever it returns.
C17_SynthesisReadsOnly ==
    [][SynthesisStep =>
          /\ result'.returned
          /\ detailed_introspection_data' = detailed_introspection_data
          /\ introspected_types' = introspected_types]_vars

\* a call on a registry that holds types has returned None
C17_Witness ==
    /\ Registered # {} /\ introspected_types # {}
    /\ request.fn = "generate_comprehensive_example_query"
    /\ result.returned /\ result.none

(***************************************************************************)
(* Registry entries are written once and whole                             *)
(***************************************************************************)
\* an entry whose derived parts agree with its stored parts
CompleteEntry(e) ==
    /\ e.field_count = Len(e.fields)
    /\ SeqToSet(e.all_related_types) =
          SeqToSet(e.related_types) \cup SeqToSet(e.argument_types)

\* a step taken while a crawl runs: every step but the loading of a snapshot
\* and the choice of a fresh start
DuringCrawl == stack # <<>> \/ mainpc \in {"query", "followup"}

\* C18: in every state each entry is complete and stored under its name; a
\* step of a crawl leaves every existing entry as it is, and when it adds a
\* key it adds one, for the type whose response has arrived, with all the
\* fields and input fields of the type.
C18_EntriesWrittenOnceAndWhole ==
    /\ [](\A n \in Registered : Registry[n].name = n /\ CompleteEntry(Registry[n]))
    /\ [][DuringCrawl =>
              \A n \in Registered :
                  n \in DOMAIN detailed_introspection_data'
                  /\ detailed_introspection_data'[n] = detailed_introspection_data[n]]_vars
    /\ [][(DuringCrawl /\ DOMAIN detailed_introspection_data' # Registered) =>
              /\ stack # <<>> /\ Top.phase = "request" /\ Top.name \notin Registered
              /\ DOMAIN detailed_introspection_data' = Registered \cup {Top.name}
              /\ Len(detailed_introspection_data'[Top.name].fields) =
                    Len(SchemaOf(schema)[Top.name].fields)
                    + Len(SchemaOf(schema)[Top.name].inputFields)]_vars

\* a crawl is under way, two calls are active, and the entry of an input
\* type with input fields has been written by this run
C18_Witness ==
    /\ Len(stack) >= 2 /\ Top.phase = "request"
    /\ "SearchFilter" \in Registered /\ FetchedThisRun("SearchFilter")
    /\ Registry["SearchFilter"].field_count = 1
    /\ Cardinality(Registered) >= 3

(***************************************************************************)
(* The depth recorded in an entry                                          *)
(***************************************************************************)
\* the types the schema's type n refers to in a field, input field or argument
SchemaRefs(id, n) ==
    IF n \notin DOMAIN SchemaOf(id) THEN {}
    ELSE LET fs == SchemaOf(id)[n].fields \o SchemaOf(id)[n].inputFields
         IN  {fs[i].type[Len(fs[i].type)].name : i \in 1..Len(fs)}
             \cup SchemaArgumentTypes(id, n)

\* breadth-first levels from a frontier: the level of n, or -1
RECURSIVE LevelOf(_, _, _, _, _)
LevelOf(id, n, frontier, seen, k) ==
    IF n \in frontier THEN k
    ELSE IF frontier = {} THEN -1
    ELSE LevelOf(id, n,
                 UNION {SchemaRefs(id, m) : m \in frontier} \ (seen \cup frontier),
                 seen \cup frontier, k + 1)

\* the length of a shortest reference path from root to n
GraphDistance(id, root, n) == LevelOf(id, n, {root}, {}, 0)

\* C19 as stated: in a run that crawls from Query, the depth recorded for a
\* type this run fetched is the length of a shortest reference path from
\* Query to it.
C19_DepthIsGraphDistance ==
    \A n \in Registered :
        (FetchedThisRun("Query") /\ FetchedThisRun(n)) =>
            Registry[n].depth = GraphDistance(schema, "Query", n)

\* the response for the active call arrives and its entry is written
EntryWritten ==
    /\ stack # <<>> /\ Top.phase = "request"
    /\ Top.name \in DOMAIN detailed_introspection_data' /\ Top.name \notin Registered

\* C19: the depth recorded for a type is the depth argument of the call that
\* fetched it: 0 for a call made by main or by a follow-up pass, and one more
\* than the recorded depth of the type whose loop made the call otherwise,
\* that type referring to it; the recorded depth of an entry never changes.
C19_DepthIsCallDepth ==
    /\ [](\A n \in Registered : FetchedThisRun(n) => Registry[n].depth = fetchDepth[n])
    /\ [][EntryWritten =>
              /\ detailed_introspection_data'[Top.name].depth = Top.depth
              /\ Len(stack) = 1 => Top.depth = 0
              /\ Len(stack) > 1 =>
                    /\ RefersTo(stack[Len(stack) - 1].name, Top.name)
                    /\ Top.depth = Registry[stack[Len(stack) - 1].name].depth + 1]_vars
    /\ [][\A n \in Registered \cap DOMAIN detailed_introspection_data' :
              detailed_introspection_data'[n].depth = Registry[n].depth]_vars

\* in the cyclic schema Query refers to Title, and Title was fetched from the
\* loop of Name at depth 2; later it is referenced again and keeps its depth
C19_Witness ==
    /\ schema = "cyclic" /\ FetchedThisRun("Query") /\ Idle
    /\ RefersTo("Query", "Title") /\ "Title" \in Registered
    /\ Registry["Title"].depth = 2

(***************************************************************************)
(* Stored type references                                                  *)
(***************************************************************************)
\* a bare name, or [ a well-formed reference ], each optionally followed by !
RECURSIVE WellFormedRef(_)
WellFormedRef(t) ==
    /\ t # <<>>
    /\ LET u == IF t[Len(t)] = "!" THEN SubSeq(t, 1, Len(t) - 1) ELSE t
       IN  /\ u # <<>>
           /\ IF Len(u) = 1 THEN ~IsWrapper(u[1])
              ELSE /\ u[1] = "[" /\ u[Len(u)] = "]"
                   /\ WellFormedRef(SubSeq(u, 2, Len(u) - 1))

\* the name of the innermost named type of a wrapper chain of the schema
InnermostName(type) == type[Len(type)].name

\* the stored reference is well formed and names the innermost type
StoredAs(stored, type) == WellFormedRef(stored) /\ CleanType(stored) = InnermostName(type)

\* C20: for every field, input field and argument of a type of the schema
\* that the registry holds, the stored type reference is well formed and,
\* stripped of !, [ and ], is the name of the innermost named type of the
\* schema's reference, at any wrapper nesting depth.
C20_StoredRefNamesInnermostType ==
    \A n \in Registered \cap DOMAIN SchemaOf(schema) :
        LET fs == SchemaOf(schema)[n].fields \o SchemaOf(schema)[n].inputFields
        IN  /\ Len(Registry[n].fields) = Len(fs)
            /\ \A i \in 1..Len(fs) :
                  /\ StoredAs(Registry[n].fields[i].type, fs[i].type)
                  /\ \A j \in 1..Len(fs[i].args) :
                        StoredAs(Registry[n].fields[i].args[j].type, fs[i].args[j].type)

(***************************************************************************)
(* Stored reference sets                                                   *)
(***************************************************************************)
\* the kinds whose names are tracked as references
ReferenceKinds == {"OBJECT", "INPUT_OBJECT", "ENUM", "INTERFACE", "UNION"}

\* the name of the innermost type of a wrapper chain of the schema, if its
\* kind is tracked
NamedReference(type) ==
    IF type[Len(type)].kind \in ReferenceKinds THEN {type[Len(type)].name} ELSE {}

\* the non-scalar types the schema's type n uses as a field or input field type
SchemaFieldReferences(id, n) ==
    LET fs == SchemaOf(id)[n].fields \o SchemaOf(id)[n].inputFields
    IN  UNION {NamedReference(fs[i].type) : i \in 1..Len(fs)}

\* the non-scalar types the schema's type n uses as a field argument type
SchemaArgumentReferences(id, n) ==
    LET fs == SchemaOf(id)[n].fields \o SchemaOf(id)[n].inputFields
    IN  UNION {UNION {NamedReference(fs[i].args[j].type) : j \in 1..Len(fs[i].args)} :
                  i \in 1..Len(fs)}

\* the scalar names of the schema: the built-in ones and the types of kind SCALAR
ScalarNames(id) ==
    {"String", "Int", "Float", "Boolean", "ID"}
    \cup {n \in DOMAIN SchemaOf(id) : SchemaOf(id)[n].kind = "SCALAR"}

\* C21: for every type of the schema that the registry holds, related_types
\* holds every non-scalar type used as a field type, argument_types every
\* non-scalar type used as a field argument type, however the reference is
\* wrapped, all_related_types holds both, and none holds a scalar name.
C21_ReferenceSetsHoldEveryNonScalarType ==
    \A n \in Registered \cap DOMAIN SchemaOf(schema) :
        /\ SchemaFieldReferences(schema, n) \subseteq SeqToSet(Registry[n].related_types)
        /\ SchemaArgumentReferences(schema, n) \subseteq SeqToSet(Registry[n].argument_types)
        /\ SchemaFieldReferences(schema, n) \cup SchemaArgumentReferences(schema, n)
              \subseteq SeqToSet(Registry[n].all_related_types)
        /\ SeqToSet(Registry[n].all_related_types) \cap ScalarNames(schema) = {}

(***************************************************************************)
(* The node type of a connection                                           *)
(***************************************************************************)
\* a connection was rendered: the connection builder was called, or
\* build_query_body was called for a connection it could expand
ConnectionRendered ==
    /\ result.returned /\ HasConnection(CleanType(request.type))
    /\ \/ request.fn = "build_validated_connection_query"
       \/ /\ request.fn = "build_query_body" /\ request.depth <= 3
          /\ CleanType(request.type) \notin request.visited

\* the type of the field f of the schema's type n, or "" when there is none
SchemaFieldType(id, n, f) ==
    IF n \in DOMAIN SchemaOf(id) /\ HasFieldNamed(SchemaOf(id)[n].fields, f)
    THEN InnermostName(FieldNamed(SchemaOf(id)[n].fields, f).type)
    ELSE ""

\* the connection c, its edge type and that type's node type are all registered
NodeResolvable(c) ==
    /\ c \in Registered
    /\ SchemaFieldType(schema, c, "edges") \in Registered
    /\ SchemaFieldType(schema, SchemaFieldType(schema, c, "edges"), "node") \in Registered

\* { edges { node { id } cursor } pageInfo { ... } total }
MinimalScaffold ==
    <<"{", "NL", "edges", "{", "NL", "node", "{", "NL", "id", "NL", "}", "NL",
      "cursor", "NL", "}", "NL",
      "pageInfo", "{", "NL", "hasNextPage", "NL", "hasPreviousPage", "NL",
      "startCursor", "NL", "endCursor", "NL", "}", "NL", "total", "NL", "}">>

\* XConnection of the crossed schema resolves to Y through XEdge.node
CrossedCase ==
    /\ schema = "crossed" /\ ConnectionRendered
    /\ CleanType(request.type) = "XConnection"
    /\ {"XConnection", "XEdge", "Y"} \subseteq Registered

\* C22: when the connection type, its edges field, the edge type, its node
\* field or the node type is missing from the registry, the connection is
\* the minimal scaffold; when they are there the node body holds fields of
\* the type of the edge type's node field (Y: title) and none of the type
\* the connection's name suggests (X: name, rank).
C22_NodeResolvedThroughRegistry ==
    /\ (ConnectionRendered /\ ~NodeResolvable(CleanType(request.type))) =>
          result.text = MinimalScaffold
    /\ CrossedCase =>
          /\ Occurs(result.text, "title")
          /\ ~Occurs(result.text, "name") /\ ~Occurs(result.text, "rank")

C22_Witness ==
    /\ CrossedCase /\ "X" \in Registered
    /\ request.fn = "build_validated_connection_query"
    /\ Contains(result.text, <<"node", "{", "NL", "id", "NL", "title", "NL", "}">>)

(***************************************************************************)
(* Cycles through a connection                                             *)
(***************************************************************************)
\* the node type the registry gives for the connection c
SchemaNodeType(c) == SchemaFieldType(schema, SchemaFieldType(schema, c, "edges"), "node")

\* C23: when the node type resolved for a connection is already in the visited
\* set of the call, the node body is { id } only: the connection is rendered
\* as the scaffold around node { id }, with none of the node type's other
\* fields.
C23_VisitedNodeRenderedAsIdOnly ==
    (/\ ConnectionRendered
     /\ NodeResolvable(CleanType(request.type))
     /\ SchemaNodeType(CleanType(request.type)) \in request.visited)
    => result.text = MinimalScaffold

(***************************************************************************)
(* The node type of an edge                                                *)
(***************************************************************************)
\* an edge was rendered: the edge builder was called, or build_query_body was
\* called for an edge type it could expand
EdgeRendered ==
    /\ result.returned /\ HasEdge(CleanType(request.type))
    /\ ~HasConnection(CleanType(request.type))
    /\ \/ request.fn = "build_validated_edge_query"
       \/ /\ request.fn = "build_query_body" /\ request.depth <= 3
          /\ CleanType(request.type) \notin request.visited

\* { node <node-body> cursor }
EdgeBody(node_body) == <<"{", "NL", "node">> \o node_body \o <<"NL", "cursor", "NL", "}">>

\* the bodies build_query_body gives for the type n below the call at hand,
\* whatever depth and visited set the edge builder passes on
NodeBodies(n) ==
    {build_query_body(<<n>>, d, v, <<>>) :
        d \in request.depth..(request.depth + 2),
        v \in {request.visited, request.visited \cup {CleanType(request.type)}}}

\* C24: for an edge type the registry holds, with a node field whose type the
\* registry holds, the body is { node <node-body> cursor }, <node-body> being
\* the body of the type of the node field, whether the edge typeRef is bare
\* or wrapped.
C24_EdgeNodeFromRegistry ==
    (/\ EdgeRendered
     /\ CleanType(request.type) \in Registered
     /\ SchemaFieldType(schema, CleanType(request.type), "node") \in Registered)
    => \E node_body \in NodeBodies(SchemaFieldType(schema, CleanType(request.type), "node")) :
          result.text = EdgeBody(node_body)

\* build_query_body has returned the body of a registered object type that it
\* expanded: not cut off by depth, not visited, not a connection or an edge
ObjectBodyCase ==
    /\ request.fn = "build_query_body" /\ result.returned
    /\ request.depth <= 3
    /\ CleanType(request.type) \in Registered
    /\ Registry[CleanType(request.type)].kind = "OBJECT"
    /\ ~HasConnection(CleanType(request.type)) /\ ~HasEdge(CleanType(request.type))
    /\ CleanType(request.type) \notin request.visited

\* the number of braces open before token i
BraceLevel(tokens, i) ==
    Cardinality({j \in 1..(i - 1) : tokens[j] = "{"})
    - Cardinality({j \in 1..(i - 1) : tokens[j] = "}"})

\* the positions of the fields selected at the outermost node of a body
TopFieldIdx(tokens) ==
    IF tokens = IdOnly THEN {2}
    ELSE {i \in 2..Len(tokens) :
            /\ tokens[i - 1] = "NL" /\ tokens[i] # "}"
            /\ BraceLevel(tokens, i) = 1}

\* the field at position i carries no sub-selection
BareAt(tokens, i) == tokens[i + 1] \in {"NL", "}"}

\* the budget of a node as the text of build_query_body states it
NodeBudget(clean_type, depth, max_fields) ==
    IF max_fields # <<>> THEN max_fields[1]
    ELSE IF clean_type \in {"Title", "Name"}
    THEN (IF 20 - 4 * depth > 8 THEN 20 - 4 * depth ELSE 8)
    ELSE (IF 15 - 3 * depth > 6 THEN 15 - 3 * depth ELSE 6)

\* C25: the body build_query_body returns for an object type selects at most
\* as many fields at its outermost node as the node's budget (the caller's
\* max_fields, else max(20 - 4*depth, 8) for Title/Name and max(15 - 3*depth, 6)
\* otherwise, which never grows with depth); id is first when the type has it,
\* a bare field with a priority keyword precedes every bare field without one,
\* and every bare field precedes every field with a sub-selection
C25_BudgetAndOrder ==
    /\ \A t \in {"Title", "X"} : \A d \in 0..MaxRequestDepth :
          /\ FieldBudget(t, d + 1, <<>>) <= FieldBudget(t, d, <<>>)
          /\ NodeBudget(t, d + 1, <<>>) <= NodeBudget(t, d, <<>>)
    /\ ObjectBodyCase =>
          LET tokens == result.text
              idx == TopFieldIdx(tokens)
          IN  /\ Cardinality(idx)
                    <= NodeBudget(CleanType(request.type), request.depth,
                                  request.max_fields)
              /\ HasFieldNamed(FieldsOf(CleanType(request.type)), "id")
                    => /\ idx # {}
                       /\ \A i \in idx : i <= 3 <=> tokens[i] = "id"
              /\ \A i \in idx : \A j \in idx :
                    i < j =>
                       /\ BareAt(tokens, j) => BareAt(tokens, i)
                       /\ (/\ BareAt(tokens, i) /\ BareAt(tokens, j)
                           /\ tokens[i] # "id" /\ HasScalarKeyword(tokens[j]))
                             => HasScalarKeyword(tokens[i])

\* a caller's budget of 3 cut a body short: three fields selected, id first and
\* a sub-selection last, of a type with more than three fields
C25_Witness ==
    /\ ObjectBodyCase
    /\ request.max_fields = <<3>>
    /\ Len(FieldsOf(CleanType(request.type))) > 3
    /\ Cardinality(TopFieldIdx(result.text)) = 3
    /\ \E i \in TopFieldIdx(result.text) : ~BareAt(result.text, i)

\* a default budget let bare fields of both tiers and a sub-selection through
C25_WitnessTiers ==
    /\ ObjectBodyCase
    /\ request.max_fields = <<>>
    /\ \E i \in TopFieldIdx(result.text) : \E j \in TopFieldIdx(result.text) :
       \E k \in TopFieldIdx(result.text) :
          /\ i < j /\ j < k
          /\ BareAt(result.text, i) /\ HasScalarKeyword(result.text[i])
          /\ BareAt(result.text, j) /\ ~HasScalarKeyword(result.text[j])
          /\ ~BareAt(result.text, k)

\* the triples <<T, f, i>> of a text: token i is the field f, selected under a
\* selection for T
RECURSIVE Selections(_, _, _, _)
Selections(tokens, i, ctx, pending) ==
    IF i > Len(tokens) THEN {}
    ELSE IF tokens[i] = "{" THEN Selections(tokens, i + 1, ctx \o <<pending>>, "")
    ELSE IF tokens[i] = "}"
    THEN Selections(tokens, i + 1, SubSeq(ctx, 1, Len(ctx) - 1), "")
    ELSE IF tokens[i] \in {"NL", "(first: 10)"} THEN Selections(tokens, i + 1, ctx, pending)
    ELSE {<<CtxTop(ctx), tokens[i], i>>}
         \cup Selections(tokens, i + 1, ctx, TypeUnder(CtxTop(ctx), tokens[i]))

\* token i of the text is followed by the token x
NextIs(tokens, i, x) == i < Len(tokens) /\ tokens[i + 1] = x

\* the field at token i has neither arguments nor a sub-selection
Bare(tokens, i) == ~NextIs(tokens, i, "{") /\ ~NextIs(tokens, i, "(first: 10)")

\* a body or a document for a type has been synthesized
DocumentReturned ==
    /\ request.fn \in {"build_query_body", "generate_example_query_for_type",
                       "generate_comprehensive_example_query"}
    /\ result.returned /\ ~result.none

\* the selections of the requested type in the text returned: all of a body,
\* and in a document what follows the arguments of the root field
SelectionsOfRequest ==
    IF request.fn = "build_query_body"
    THEN Selections(result.text, 1, <<>>, CleanType(request.type))
    ELSE Selections(result.text,
                    1 + (CHOOSE i \in 1..Len(result.text) :
                            result.text[i] = "(id: $entity_id)"),
                    <<>>, request.name)

\* a leaf type: built-in scalar, SCALAR or ENUM of the registry, or a name the
\* custom-scalar heuristic accepts
LeafType(n) ==
    \/ n \in {"String", "Int", "Float", "Boolean", "ID"}
    \/ n \in Registered /\ Registry[n].kind \in {"SCALAR", "ENUM"}
    \/ n \notin Registered /\ LooksLikeCustomScalar(n)

\* C26: in the text of build_query_body, generate_example_query_for_type and
\* generate_comprehensive_example_query, a field of a registered type that is
\* selected without a sub-selection has a leaf type, and a selected field
\* whose type is an OBJECT, INTERFACE or UNION of the registry has a
\* sub-selection
C26_BareFieldsAreLeaves ==
    DocumentReturned =>
        \A p \in SelectionsOfRequest :
            verify_field_exists_in_type(p[2], p[1]) =>
                /\ Bare(result.text, p[3]) => LeafType(TypeUnder(p[1], p[2]))
                /\ (/\ TypeUnder(p[1], p[2]) \in Registered
                    /\ Registry[TypeUnder(p[1], p[2])].kind
                          \in {"OBJECT", "INTERFACE", "UNION"})
                      => ~Bare(result.text, p[3])

\* C27: every key of the registry is known, every name a request was sent for
\* is known (the name is marked before its request is sent), and no name has
\* two calls in progress at once
C27_RegistryKeysAreKnown ==
    /\ Registered \subseteq introspected_types
    /\ \A n \in TypeNames : FetchedThisRun(n) => n \in introspected_types
    /\ \A i \in 1..Len(stack) : stack[i].name \in introspected_types
    /\ \A i \in 1..Len(stack) : \A j \in 1..Len(stack) :
          i # j => stack[i].name # stack[j].name

\* a type fetched below another refers back to it while that call is still in
\* progress, and the type referred to has been requested once
C27_Witness ==
    /\ Len(stack) >= 2 /\ Top.phase = "related"
    /\ \E i \in 1..(Len(stack) - 1) :
          /\ RefersTo(Top.name, stack[i].name)
          /\ requests[stack[i].name] = 1
    /\ RefersTo(Top.name, Top.name)

\* C28: whenever main goes on to a fresh crawl the registry and the known set
\* are both empty, the fresh crawl sends the request for Query, and every
\* known name has a registry entry or was requested in this run
C28_ResetClearsKnownSet ==
    [][/\ (mainpc # "query" /\ mainpc' = "query")
            => (Registered' = {} /\ introspected_types' = {})
       /\ (mainpc = "query" /\ mainpc' = "followup")
            => requests'["Query"] = requests["Query"] + 1
       /\ \A n \in introspected_types' : n \in Registered' \/ requests'[n] >= 1]_vars

\* C29: in the text build_query_body returns, a field of a registered type
\* carries the argument (first: 10) exactly when the field's own type names a
\* connection, and carries it once
C29_FirstArgumentOnConnectionsOnly ==
    (request.fn = "build_query_body" /\ result.returned) =>
        \A p \in Selections(result.text, 1, <<>>, CleanType(request.type)) :
            verify_field_exists_in_type(p[2], p[1]) =>
                /\ NextIs(result.text, p[3], "(first: 10)")
                      <=> HasConnection(TypeUnder(p[1], p[2]))
                /\ ~NextIs(result.text, p[3] + 1, "(first: 10)")

\* every sub-selection in the text is { id }: no "{" after the first opens
\* anything else
OnlyIdBelow(tokens) ==
    \A j \in 2..Len(tokens) :
        tokens[j] = "{" =>
            /\ j + 2 <= Len(tokens)
            /\ tokens[j + 1] = "id" /\ tokens[j + 2] = "}"

\* C30: every synthesizer call returns; build_query_body called at a depth
\* greater than 3 returns { id }; and what a body built at depth 3 attaches to
\* its fields, which calls at depth 4 or more build, is never more than { id }
C30_NoBodyBeyondDepthThree ==
    /\ request # NoRequest => result.returned
    /\ (request.fn = "build_query_body" /\ request.depth > 3 /\ result.returned)
          => result.text = IdOnly
    /\ (ObjectBodyCase /\ request.depth = 3) => OnlyIdBelow(result.text)

====
